---- MODULE Spec2Model ----
(***************************************************************************)
(* Model of the OSC communication layer of the TouchDesigner templates     *)
(* (src/src/templates/osc-communication.template.py): the wire codec       *)
(* (_build_osc_message / _parse_osc_message) as operators computed the way *)
(* the Python code computes them, and OSCManager as a state machine.  The  *)
(* quality control of PerformanceMonitor (performance-monitoring.template) *)
(* and the device detection of HardwareManager (hardware-integration       *)
(* .template) follow as state machines of their own.                       *)
(*                                                                         *)
(* Conventions: bytes objects are sequences of 0..255, Python strings are  *)
(* sequences of Unicode code points, Python indices are 0-based and        *)
(* slices half-open (Slice), and a float is a float32 value given by its   *)
(* IEEE-754 fields <<sign, exponent, mantissa>>.                           *)
(***************************************************************************)
EXTENDS Integers, Sequences, FiniteSets, TLC

(***************************************************************************)
(* Bounds of the model.                                                    *)
(***************************************************************************)
\* longest argument list handed to _build_osc_message / send
MaxArgs == 3
\* longest exhaustively enumerated raw datagram (over RawBytes)
MaxRawLen == 5
\* cap on the number of calls of public operations
MaxCalls == 2
\* cap on the number of datagrams the receive socket delivers
MaxReceived == 3
\* cap on the number of receive-loop threads ever started
MaxThreads == 2
\* the number of threads of the owner that call send at the same time
MaxSenders == 2
\* the largest count get_recent_messages is called with
MaxCount == 3
\* cap on the number of calls made on a PerformanceMonitor
MaxMonitorCalls == 6
\* cap on the number of calls made on a HardwareManager
MaxHardwareCalls == 3
\* the number of FPS samples an adjustment averages and requires, and the
\* number of cook times averaged (30 in the source), scaled down
SampleWindow == 2
\* the number of frame times the current FPS averages (60 in the source),
\* scaled down
FrameWindow == 3
\* self.max_history (300 in the source), scaled down
max_history == 4
\* self.quality_adjustment_cooldown (2.0 s in the source) in milliseconds,
\* scaled down
quality_adjustment_cooldown == 50
\* self.max_queue_size (1000 in the source), scaled down
max_queue_size == 2

(***************************************************************************)
(* Python values.                                                          *)
(***************************************************************************)
\* Python's ord() on the characters the model uses
Ord(c) ==
    CASE c = "/" -> 47  [] c = "," -> 44
      [] c = "a" -> 97  [] c = "b" -> 98  [] c = "c" -> 99  [] c = "d" -> 100
      [] c = "e" -> 101 [] c = "f" -> 102 [] c = "i" -> 105 [] c = "k" -> 107
      [] c = "l" -> 108 [] c = "n" -> 110 [] c = "o" -> 111 [] c = "p" -> 112
      [] c = "r" -> 114 [] c = "s" -> 115 [] c = "t" -> 116 [] c = "u" -> 117
      [] c = "x" -> 120 [] c = "T" -> 84  [] c = "F" -> 70

\* a Python str literal, written as a tuple of one-character strings
Str(t) == [k \in 1..Len(t) |-> Ord(t[k])]

\* typed Python values: the class of the object and its value
\* (an int v is kept as <<v \div 65536, v % 65536>>, so that ints beyond
\* 32 bits can be written)
PyInt(v) == [type |-> "int", val |-> <<v \div 65536, v % 65536>>]
PyIntHiLo(hi, lo) == [type |-> "int", val |-> <<hi, lo>>]
PyFloat(s, e, m) == [type |-> "float", val |-> <<s, e, m>>]
PyStr(t) == [type |-> "str", val |-> t]
PyBool(b) == [type |-> "bool", val |-> <<0, IF b THEN 1 ELSE 0>>]
PyNone == [type |-> "NoneType", val |-> <<>>]

\* isinstance(arg, cls): bool is a subclass of int in Python
isinstance(arg, cls) ==
    \/ arg.type = cls
    \/ cls = "int" /\ arg.type = "bool"

\* the outcome of an expression that raised an exception, and the outcome
\* of one that returned v
Raised == [kind |-> "raised"]
Ok(v) == [kind |-> "ok", val |-> v]
\* the value None returned by _parse_osc_message
None == [kind |-> "None"]

(***************************************************************************)
(* bytes and str primitives.                                               *)
(***************************************************************************)
\* b'\x00' * n
Zeros(n) == [k \in 1..n |-> 0]

\* data[lo:hi] for 0 <= lo, Python's clamping of hi included
Slice(data, lo, hi) ==
    LET h == IF hi > Len(data) THEN Len(data) ELSE hi
    IN  IF lo >= h THEN <<>> ELSE SubSeq(data, lo + 1, h)

\* data.find(b'\x00', start): 0-based index of the first NUL at or after
\* start, -1 when there is none
Find(data, start) ==
    LET hits == {k \in start..(Len(data) - 1) : data[k + 1] = 0}
    IN  IF hits = {} THEN -1
        ELSE CHOOSE k \in hits : \A j \in hits : k <= j

\* the UTF-8 encoding of one code point (a lone surrogate raises)
Utf8Char(cp) ==
    IF cp < 128 THEN <<cp>>
    ELSE IF cp < 2048 THEN <<192 + (cp \div 64), 128 + (cp % 64)>>
    ELSE IF cp < 65536 THEN
        <<224 + (cp \div 4096), 128 + ((cp \div 64) % 64), 128 + (cp % 64)>>
    ELSE <<240 + (cp \div 262144), 128 + ((cp \div 4096) % 64),
           128 + ((cp \div 64) % 64), 128 + (cp % 64)>>

RECURSIVE Utf8EncodeFrom(_, _)
Utf8EncodeFrom(s, k) ==
    IF k > Len(s) THEN <<>>
    ELSE Utf8Char(s[k]) \o Utf8EncodeFrom(s, k + 1)

\* s.encode('utf-8')
Utf8Encode(s) ==
    IF \E k \in 1..Len(s) : s[k] >= 55296 /\ s[k] <= 57343 THEN Raised
    ELSE Ok(Utf8EncodeFrom(s, 1))

IsCont(b, k) == k <= Len(b) /\ b[k] >= 128 /\ b[k] <= 191

\* b.decode('utf-8') from position k (1-based) on, strict error handling:
\* the code points, or Raised on an invalid, overlong, surrogate or
\* truncated sequence
RECURSIVE Utf8DecodeFrom(_, _)
Utf8DecodeFrom(b, k) ==
    IF k > Len(b) THEN Ok(<<>>)
    ELSE
      LET c == b[k]
          n == IF c < 128 THEN 1
               ELSE IF c >= 194 /\ c <= 223 THEN 2
               ELSE IF c >= 224 /\ c <= 239 THEN 3
               ELSE IF c >= 240 /\ c <= 244 THEN 4
               ELSE 0
          ok == /\ n > 0
                /\ \A j \in 1..(n - 1) : IsCont(b, k + j)
          cp == IF n = 1 THEN c
                ELSE IF n = 2 THEN (c - 192) * 64 + (b[k + 1] - 128)
                ELSE IF n = 3 THEN (c - 224) * 4096 + (b[k + 1] - 128) * 64
                                   + (b[k + 2] - 128)
                ELSE (c - 240) * 262144 + (b[k + 1] - 128) * 4096
                     + (b[k + 2] - 128) * 64 + (b[k + 3] - 128)
          valid == /\ ok
                   /\ (n = 3 => cp >= 2048 /\ ~(cp >= 55296 /\ cp <= 57343))
                   /\ (n = 4 => cp >= 65536 /\ cp <= 1114111)
      IN  IF ~valid THEN Raised
          ELSE LET rest == Utf8DecodeFrom(b, k + n)
               IN  IF rest = Raised THEN Raised
                   ELSE Ok(<<cp>> \o rest.val)

\* b.decode('utf-8')
Utf8Decode(b) == Utf8DecodeFrom(b, 1)

\* struct.pack('>i', v) of the int v = hi * 65536 + lo given as <<hi, lo>>:
\* struct.error outside the int32 range, else the two's complement of v,
\* most significant byte first
pack_i(v) ==
    IF v[1] < -32768 \/ v[1] > 32767 THEN Raised
    ELSE LET h == v[1] % 65536
         IN  Ok(<<h \div 256, h % 256, v[2] \div 256, v[2] % 256>>)

\* struct.unpack('>i', b)[0], as <<hi, lo>>
unpack_i(b) ==
    LET h == b[1] * 256 + b[2]
    IN  <<IF h >= 32768 THEN h - 65536 ELSE h, b[3] * 256 + b[4]>>

\* struct.pack('>f', x) of the float32 with fields x = <<sign, exp, mant>>:
\* sign bit, 8 exponent bits, 23 mantissa bits, most significant byte first
pack_f(x) ==
    <<x[1] * 128 + (x[2] \div 2), (x[2] % 2) * 128 + (x[3] \div 65536),
      (x[3] \div 256) % 256, x[3] % 256>>

\* struct.unpack('>f', b)[0]
unpack_f(b) ==
    <<b[1] \div 128, (b[1] % 128) * 2 + (b[2] \div 128),
      (b[2] % 128) * 65536 + b[3] * 256 + b[4]>>

(***************************************************************************)
(* The codec.                                                              *)
(***************************************************************************)
\* an OSCMessage instance
OSCMessage(a, xs, t) ==
    [kind |-> "OSCMessage", address |-> a, args |-> xs, timestamp |-> t]

\* (mutant: pads to the next multiple of 4, with no terminator when the
\* length already is one)
Pad_mut(x) == x \o Zeros((4 - (Len(x) % 4)) % 4)

\* x + b'\x00' * (4 - (len(x) % 4))
Pad(x) == x \o Zeros(4 - (Len(x) % 4))

\* (mutant: rounds pos itself up, not the offset after the terminator)
Align4_mut(pos) == ((pos + 3) \div 4) * 4

\* ((pos + 4) // 4) * 4
Align4(pos) == ((pos + 4) \div 4) * 4

\* the body of the loop "for arg in args" for the k-th argument and on;
\* acc = [type_tag, arg_data]; Raised when pack or encode raises
RECURSIVE BuildArgs(_, _, _)
BuildArgs(args, k, acc) ==
    IF k > Len(args) THEN Ok(acc)
    ELSE
      LET arg == args[k]
      IN  IF isinstance(arg, "float") THEN
              BuildArgs(args, k + 1,
                  [type_tag |-> Append(acc.type_tag, Ord("f")),
                   arg_data |-> acc.arg_data \o pack_f(arg.val)])
          ELSE IF isinstance(arg, "int") THEN
              LET packed == pack_i(arg.val)
              IN  IF packed = Raised THEN Raised
                  ELSE BuildArgs(args, k + 1,
                          [type_tag |-> Append(acc.type_tag, Ord("i")),
                           arg_data |-> acc.arg_data \o packed.val])
          ELSE IF isinstance(arg, "str") THEN
              LET str_bytes == Utf8Encode(arg.val)
              IN  IF str_bytes = Raised THEN Raised
                  ELSE BuildArgs(args, k + 1,
                          [type_tag |-> Append(acc.type_tag, Ord("s")),
                           arg_data |-> acc.arg_data \o Pad(str_bytes.val)])
          ELSE IF isinstance(arg, "bool") THEN
              BuildArgs(args, k + 1,
                  [type_tag |-> Append(acc.type_tag,
                                   IF arg.val[2] = 1 THEN Ord("T")
                                   ELSE Ord("F")),
                   arg_data |-> acc.arg_data])
          ELSE BuildArgs(args, k + 1, acc)

\* OSCManager._build_osc_message: Ok(the bytes), or Raised
_build_osc_message(address, args) ==
    LET addr_bytes == Utf8Encode(address)
        built == BuildArgs(args, 1,
                     [type_tag |-> Str(<<",">>), arg_data |-> <<>>])
        type_tag_bytes == Utf8Encode(built.val.type_tag)
    IN  IF addr_bytes = Raised \/ built = Raised THEN Raised
        ELSE Ok(Pad(addr_bytes.val) \o Pad(type_tag_bytes.val)
                    \o built.val.arg_data)

\* the loop "for i, arg_type in enumerate(type_tag[1:])" from the k-th
\* character of type_tag on (k is 1-based, so the loop starts at k = 2);
\* the list args at loop exit, or Raised when a decode raises
RECURSIVE ParseArgs(_, _, _, _, _)
ParseArgs(data, type_tag, k, arg_start, args) ==
    IF k > Len(type_tag) THEN Ok(args)
    ELSE IF arg_start >= Len(data) THEN Ok(args)
    ELSE
      LET arg_type == type_tag[k]
      IN  IF arg_type = Ord("f") THEN
              IF arg_start + 4 <= Len(data) THEN
                  ParseArgs(data, type_tag, k + 1, arg_start + 4,
                      Append(args, [type |-> "float",
                          val |-> unpack_f(Slice(data, arg_start,
                                                 arg_start + 4))]))
              ELSE ParseArgs(data, type_tag, k + 1, arg_start, args)
          ELSE IF arg_type = Ord("i") THEN
              IF arg_start + 4 <= Len(data) THEN
                  ParseArgs(data, type_tag, k + 1, arg_start + 4,
                      Append(args, [type |-> "int",
                          val |-> unpack_i(Slice(data, arg_start,
                                                 arg_start + 4))]))
              ELSE ParseArgs(data, type_tag, k + 1, arg_start, args)
          ELSE IF arg_type = Ord("s") THEN
              LET str_end == Find(data, arg_start)
              IN  IF str_end # -1 THEN
                      LET value == Utf8Decode(Slice(data, arg_start, str_end))
                      IN  IF value = Raised THEN Raised
                          ELSE ParseArgs(data, type_tag, k + 1,
                                   Align4(str_end),
                                   Append(args, PyStr(value.val)))
                  ELSE ParseArgs(data, type_tag, k + 1, arg_start, args)
          ELSE ParseArgs(data, type_tag, k + 1, arg_start, args)

\* the statements inside the try block of _parse_osc_message: an
\* OSCMessage, None, or Raised when one of them raises
ParseBody(data, now) ==
    LET null_pos == Find(data, 0)
    IN  IF null_pos = -1 THEN None
        ELSE
          LET address == Utf8Decode(Slice(data, 0, null_pos))
              type_tag_start == Align4(null_pos)
          IN  IF address = Raised THEN Raised
              ELSE IF type_tag_start >= Len(data) THEN None
              ELSE
                LET type_tag_end == Find(data, type_tag_start)
                IN  IF type_tag_end = -1 THEN None
                    ELSE
                      LET type_tag == Utf8Decode(Slice(data, type_tag_start,
                                                       type_tag_end))
                      IN  IF type_tag = Raised THEN Raised
                          ELSE
                            LET args == ParseArgs(data, type_tag.val, 2,
                                            Align4(type_tag_end), <<>>)
                            IN  IF args = Raised THEN Raised
                                ELSE OSCMessage(address.val, args.val, now)

\* (mutant: the exception is let through)
CatchException_mut(outcome) == outcome

\* "except Exception as e: ... return None" around the body
CatchException(outcome) == IF outcome = Raised THEN None ELSE outcome

\* OSCManager._parse_osc_message
_parse_osc_message(data, now) == CatchException(ParseBody(data, now))

(***************************************************************************)
(* State.                                                                  *)
(***************************************************************************)
VARIABLES
    \* the codec on its own
    enc_address,  \* the address handed to _build_osc_message
    enc_args,     \* the args handed to _build_osc_message
    wire,         \* the bytes built by the encoder or read from a datagram
    decoded,      \* what _parse_osc_message returned for wire
    codec_pc,     \* "idle", "args", "raw", "encoded", "raised", "roundtrip",
                  \* "decoded"
    clock,        \* the last instant time.time() returned
    \* the fields of an OSCManager
    receive_port, send_port, send_host,
    receive_socket,   \* "None", "open", "unbound" (bind failed) or "closed"
    send_socket,      \* "None", "open" or "closed"
    unclosed,         \* the number of sockets the manager has replaced
                      \* without closing them
    listening,
    listen_thread,    \* 0 for None, else the id of the Thread object
    message_handlers, \* a function from the registered addresses to handlers
    message_queue,
    td_callback,      \* "None" or the callback
    td_integration_active,
    messages_sent, messages_received, last_send_time, last_receive_time,
    \* the environment of the manager
    thread_pc,    \* where each _listen_loop thread stands: "unstarted",
                  \* "top", "recv", "queue_test", "queue_pop", "queue_append",
                  \* "dispatch", "lookup", "in_handler", "observer",
                  \* "in_observer", "count", "count_store", "exited"
    thread_msg,   \* the message each thread is handling
    thread_data,  \* the datagram each thread has read last
    thread_fn,    \* the handler or callback each thread is executing
    thread_reg,   \* the value each thread has loaded for "+= 1"
    invoked,      \* the calls of handlers and of the observer, in order
    stop_pc,      \* "idle", or "join" while stop_listening waits in join
    sender_pc,    \* where each concurrent call of send stands: "idle",
                  \* "written", "loaded", "done"
    sender_reg,   \* the value each concurrent send has loaded for "+= 1"
    network,      \* what sendto has written: the number of datagrams and
                  \* the latest one
    arrivals,     \* the number of datagrams recvfrom has returned
    calls,        \* the number of calls of public operations
    last_call,    \* the latest call and what its caller observed
    \* the fields of a PerformanceMonitor: times in milliseconds, FPS in
    \* thousandths of a frame per second, quality levels in tenths
    frame_times, cook_times, fps_history,
    metrics_fps, metrics_frame_time, metrics_cook_time,  \* current_metrics
    current_quality_level, auto_quality_adjust,
    last_frame_time, last_quality_adjustment,
    monitor_calls,    \* the number of calls made on the monitor
    monitor_last,     \* the latest call made on the monitor
    \* the fields of a HardwareManager
    devices,          \* a function from the detected names to HardwareDevice
    auto_fallback,
    kinect_integration, midi_integration, audio_integration,
    hardware_callback,    \* self.td_callback of the HardwareManager
    hardware_calls,   \* the number of calls made on the hardware manager
    hardware_last     \* the latest call and what its caller observed

codec_vars == <<enc_address, enc_args, wire, decoded, codec_pc>>

config_vars == <<receive_port, send_port, send_host>>

socket_vars == <<receive_socket, send_socket, unclosed>>

dispatch_vars == <<message_handlers, td_callback, td_integration_active>>

send_vars == <<messages_sent, last_send_time, network, sender_pc, sender_reg>>

receive_vars == <<message_queue, messages_received, last_receive_time,
                  arrivals, invoked>>

thread_locals == <<thread_msg, thread_data, thread_fn>>

thread_vars == <<listening, listen_thread, thread_pc, thread_locals,
                 thread_reg, stop_pc>>

manager_vars == <<config_vars, socket_vars, dispatch_vars, send_vars,
                  receive_vars, thread_vars, calls, last_call>>

monitor_vars ==
    <<frame_times, cook_times, fps_history, metrics_fps, metrics_frame_time,
      metrics_cook_time, current_quality_level, auto_quality_adjust,
      last_frame_time, last_quality_adjustment, monitor_calls, monitor_last>>

hardware_vars ==
    <<devices, auto_fallback, kinect_integration, midi_integration,
      audio_integration, hardware_callback, hardware_calls, hardware_last>>

\* what is outside the OSCManager
outside_vars == <<codec_vars, monitor_vars, hardware_vars>>

vars == <<codec_vars, clock, manager_vars, monitor_vars, hardware_vars>>

(***************************************************************************)
(* Inputs of the codec.                                                    *)
(***************************************************************************)
\* all sequences over S of length at most n
SeqsUpTo(S, n) == UNION {[1..k -> S] : k \in 0..n}

\* the address of the concrete scenarios, "/particles/count"
ParticlesCount ==
    Str(<<"/", "p", "a", "r", "t", "i", "c", "l", "e", "s",
          "/", "c", "o", "u", "n", "t">>)

\* valid addresses: lengths 2, 4 (a multiple of 4), 16, and one with a
\* two-byte character ("/a" followed by U+00E9)
Addresses ==
    { Str(<<"/", "a">>), Str(<<"/", "a", "b", "c">>), ParticlesCount,
      Str(<<"/", "a">>) \o <<233>> }

\* values of the four supported argument types: 42, -1, 0.75,
\* "", "abcd", U+00E9, True, False
SupportedValues ==
    { PyInt(42), PyInt(-1), PyFloat(0, 126, 4194304),
      PyStr(<<>>), PyStr(Str(<<"a", "b", "c", "d">>)), PyStr(<<233>>),
      PyBool(TRUE), PyBool(FALSE) }

\* values outside the supported types: None, and the int 2**31
UnsupportedValues == { PyNone, PyIntHiLo(32768, 0) }

ArgLists == SeqsUpTo(SupportedValues \cup UnsupportedValues, MaxArgs)

\* the 28 bytes of concrete scenario 1
ScenarioBytes ==
    ParticlesCount \o <<0, 0, 0, 0>> \o <<44, 105, 0, 0>> \o <<0, 0, 0, 42>>

\* bytes of the exhaustively enumerated short datagrams:
\* NUL, '/', ',', 'i' and the byte 0xFF that no UTF-8 text contains
RawBytes == {0, 47, 44, 105, 255}

\* address fields of received datagrams: well-formed, of aligned length,
\* without the leading '/', empty, unterminated, not UTF-8, short padding
AddrFields ==
    { Str(<<"/", "a">>) \o <<0, 0>>,
      Str(<<"/", "a", "b", "c">>) \o <<0, 0, 0, 0>>,
      Str(<<"a">>) \o <<0, 0, 0>>,
      <<0, 0, 0, 0>>,
      Str(<<"/", "a">>),
      <<47, 255, 0, 0>>,
      Str(<<"/", "a">>) \o <<0>> }

\* type-tag fields: absent, no argument, one of each tag, an unknown tag,
\* several tags, without the leading ',', unterminated, not UTF-8
TagFields ==
    { <<>>,
      Str(<<",">>) \o <<0, 0, 0>>,
      Str(<<",", "i">>) \o <<0, 0>>,
      Str(<<",", "f">>) \o <<0, 0>>,
      Str(<<",", "s">>) \o <<0, 0>>,
      Str(<<",", "T">>) \o <<0, 0>>,
      Str(<<",", "F">>) \o <<0, 0>>,
      Str(<<",", "x">>) \o <<0, 0>>,
      Str(<<",", "i", "i">>) \o <<0>>,
      Str(<<",", "x", "i">>) \o <<0>>,
      Str(<<",", "s", "i">>) \o <<0>>,
      Str(<<",", "T", "i">>) \o <<0>>,
      Str(<<"i">>) \o <<0, 0, 0>>,
      Str(<<"i", "i">>) \o <<0, 0>>,
      Str(<<",", "i">>),
      <<44, 255, 105, 0>> }

\* argument data: none, one word, two words, a truncated word, a string,
\* an unterminated string, a string that is not UTF-8
DataFields ==
    { <<>>,
      <<0, 0, 0, 42>>,
      <<0, 0, 0, 42, 255, 255, 255, 255>>,
      <<0, 42>>,
      Str(<<"a", "b">>) \o <<0, 0>>,
      Str(<<"a", "b">>) \o <<0, 0>> \o <<0, 0, 0, 42>>,
      Str(<<"a", "b">>),
      <<255, 0, 0, 0>> }

\* the datagrams a peer may put on the wire
Datagrams ==
    {a \o t \o d : a \in AddrFields, t \in TagFields, d \in DataFields}
        \cup SeqsUpTo(RawBytes, MaxRawLen)
        \cup {ScenarioBytes}

(***************************************************************************)
(* The codec as a state machine: the inputs are drawn in InitCodec, the    *)
(* actions apply _build_osc_message and _parse_osc_message.                *)
(***************************************************************************)
\* PerformanceMonitor.__init__: the level is 1.0, both times are time.time()
InitMonitor ==
    /\ frame_times = <<>>
    /\ cook_times = <<>>
    /\ fps_history = <<>>
    /\ metrics_fps = 0
    /\ metrics_frame_time = 0
    /\ metrics_cook_time = 0
    /\ current_quality_level = 10
    /\ auto_quality_adjust = TRUE
    /\ last_frame_time = clock
    /\ last_quality_adjustment = clock
    /\ monitor_calls = 0
    /\ monitor_last = [op |-> "__init__"]

\* HardwareManager.__init__
InitHardware ==
    /\ devices = [name \in {} |-> None]
    /\ auto_fallback = TRUE
    /\ kinect_integration = None
    /\ midi_integration = None
    /\ audio_integration = None
    /\ hardware_callback = "None"
    /\ hardware_calls = 0
    /\ hardware_last = [op |-> "__init__"]

\* OSCManager.__init__
InitManager ==
    /\ receive_port = 7000
    /\ send_port = 7001
    /\ send_host = "localhost"
    /\ receive_socket = "None"
    /\ send_socket = "None"
    /\ unclosed = 0
    /\ listening = FALSE
    /\ listen_thread = 0
    /\ message_handlers = [a \in {} |-> "None"]
    /\ message_queue = <<>>
    /\ messages_sent = 0
    /\ messages_received = 0
    /\ last_send_time = 0
    /\ last_receive_time = 0
    /\ td_integration_active = FALSE
    /\ td_callback = "None"
    /\ thread_pc = [t \in 1..MaxThreads |-> "unstarted"]
    /\ thread_msg = [t \in 1..MaxThreads |-> None]
    /\ thread_data = [t \in 1..MaxThreads |-> <<>>]
    /\ thread_fn = [t \in 1..MaxThreads |-> "None"]
    /\ thread_reg = [t \in 1..MaxThreads |-> 0]
    /\ invoked = <<>>
    /\ stop_pc = "idle"
    /\ sender_pc = [s \in 1..MaxSenders |-> "idle"]
    /\ sender_reg = [s \in 1..MaxSenders |-> 0]
    /\ network = [count |-> 0, last |-> None]
    /\ arrivals = 0
    /\ calls = 0
    /\ last_call = [op |-> "__init__", outcome |-> "returned"]

InitCodec ==
    /\ InitManager
    /\ clock = 1
    /\ InitMonitor
    /\ InitHardware
    /\ decoded = None
    /\ \/ /\ codec_pc = "args"
          /\ enc_address \in Addresses
          /\ enc_args \in ArgLists
          /\ wire = <<>>
       \/ /\ codec_pc = "raw"
          /\ enc_address = <<>>
          /\ enc_args = <<>>
          /\ wire \in Datagrams

\* osc_data = self._build_osc_message(address, args) returns
Encode ==
    /\ codec_pc = "args"
    /\ _build_osc_message(enc_address, enc_args) # Raised
    /\ wire' = _build_osc_message(enc_address, enc_args).val
    /\ codec_pc' = "encoded"
    /\ UNCHANGED <<enc_address, enc_args, decoded, clock, manager_vars,
                   monitor_vars, hardware_vars>>

\* osc_data = self._build_osc_message(address, args) raises
EncodeRaises ==
    /\ codec_pc = "args"
    /\ _build_osc_message(enc_address, enc_args) = Raised
    /\ codec_pc' = "raised"
    /\ UNCHANGED <<enc_address, enc_args, wire, decoded, clock, manager_vars,
                   monitor_vars, hardware_vars>>

\* message = self._parse_osc_message(data)
Decode ==
    /\ codec_pc \in {"encoded", "raw"}
    /\ decoded' = _parse_osc_message(wire, clock)
    /\ codec_pc' = IF codec_pc = "encoded" THEN "roundtrip" ELSE "decoded"
    /\ UNCHANGED <<enc_address, enc_args, wire, clock, manager_vars,
                   monitor_vars, hardware_vars>>

NextCodec == Encode \/ EncodeRaises \/ Decode

CodecSpec == InitCodec /\ [][NextCodec]_vars

(***************************************************************************)
(* OSCManager: inputs of its operations.                                   *)
(***************************************************************************)
\* the arguments of setup: a value that is false in Python (None, 0, '')
\* leaves the configured one in place
SetupParams == { <<0, 0, "">>, <<0, 9000, "hostB">> }

\* the addresses handlers are registered for: "/a" and "/b"
HandlerAddresses == { Str(<<"/", "a">>), Str(<<"/", "b">>) }

\* handlers and observer callbacks: one that returns, one that raises
Handlers == { "returns", "raises" }

\* the address and the argument lists send is called with: [42], [None],
\* [2**31]
SendAddress == Str(<<"/", "a">>)

SendArgLists == { <<PyInt(42)>>, <<PyNone>>, <<PyIntHiLo(32768, 0)>> }

\* the target of send, as target.split(':'); <<>> stands for None:
\* None, "hostB", "hostB:9000", "hostB:x", "a:b:c"
Targets ==
    { <<>>, <<"hostB">>, <<"hostB", "9000">>, <<"hostB", "x">>,
      <<"a", "b", "c">> }

\* int(port_str): ValueError unless the text is a number
int(port_str) == IF port_str = "9000" THEN Ok(9000) ELSE Raised

\* the datagrams that arrive at the receive socket: ("/a", [42]) as the
\* encoder builds it, "/b" with the tag ",T", and "/a" without terminator
InboundDatagrams ==
    { _build_osc_message(Str(<<"/", "a">>), <<PyInt(42)>>).val,
      Str(<<"/", "b">>) \o <<0, 0>> \o Str(<<",", "T">>) \o <<0, 0>>,
      Str(<<"/", "a">>) }

(***************************************************************************)
(* OSCManager: operations called by the owner of the manager.              *)
(***************************************************************************)
\* the assignments at the head of setup
SetupConfig(p) ==
    /\ receive_port' = IF p[1] # 0 THEN p[1] ELSE receive_port
    /\ send_port' = IF p[2] # 0 THEN p[2] ELSE send_port
    /\ send_host' = IF p[3] # "" THEN p[3] ELSE send_host

\* _start_listening: nothing when already listening, else a new thread
StartListening ==
    IF listening THEN UNCHANGED <<listening, listen_thread, thread_pc>>
    ELSE \E t \in 1..MaxThreads :
            /\ thread_pc[t] = "unstarted"
            /\ \A u \in 1..(t - 1) : thread_pc[u] # "unstarted"
            /\ listening' = TRUE
            /\ listen_thread' = t
            /\ thread_pc' = [thread_pc EXCEPT ![t] = "top"]

\* "self.receive_socket = socket.socket(...)" and the same for the send
\* socket: the socket the field referred to is not closed, it is one more
\* open socket when it was open (bound or not)
Dropped(sock) == IF sock \in {"open", "unbound"} THEN 1 ELSE 0

\* setup, when both sockets are created and the receive socket is bound
SetupOk(p) ==
    /\ calls < MaxCalls
    /\ SetupConfig(p)
    /\ receive_socket' = "open"
    /\ send_socket' = "open"
    /\ unclosed' = unclosed + Dropped(receive_socket) + Dropped(send_socket)
    /\ StartListening
    /\ calls' = calls + 1
    /\ last_call' = [op |-> "setup", outcome |-> "returned"]
    /\ UNCHANGED <<outside_vars, clock, dispatch_vars, send_vars, receive_vars,
                   thread_locals, thread_reg, stop_pc>>

\* (mutant: _setup_sockets prints the error without re-raising it and setup
\* goes on to _start_listening)
SetupBindFails_mut(p) ==
    /\ calls < MaxCalls
    /\ SetupConfig(p)
    /\ receive_socket' = "unbound"
    /\ unclosed' = unclosed + Dropped(receive_socket)
    /\ StartListening
    /\ calls' = calls + 1
    /\ last_call' = [op |-> "setup", outcome |-> "returned"]
    /\ UNCHANGED <<outside_vars, clock, send_socket, dispatch_vars, send_vars,
                   receive_vars, thread_locals, thread_reg, stop_pc>>

\* setup, when bind raises: _setup_sockets re-raises, no loop is started
SetupBindFails(p) ==
    /\ calls < MaxCalls
    /\ SetupConfig(p)
    /\ receive_socket' = "unbound"
    /\ unclosed' = unclosed + Dropped(receive_socket)
    /\ calls' = calls + 1
    /\ last_call' = [op |-> "setup", outcome |-> "raised"]
    /\ UNCHANGED <<outside_vars, clock, send_socket, dispatch_vars, send_vars,
                   receive_vars, thread_vars>>

\* stop_listening up to the join: the flag is cleared
StopListening ==
    /\ calls < MaxCalls
    /\ stop_pc = "idle"
    /\ listening' = FALSE
    /\ stop_pc' = "join"
    /\ calls' = calls + 1
    /\ last_call' = [op |-> "stop_listening", outcome |-> "pending"]
    /\ UNCHANGED <<outside_vars, clock, config_vars, socket_vars, dispatch_vars,
                   send_vars, receive_vars, listen_thread, thread_pc,
                   thread_locals, thread_reg>>

\* a socket after "if sock: sock.close()"
Closed(sock) == IF sock = "None" THEN "None" ELSE "closed"

\* stop_listening from the return of join(timeout=2.0) on: join returns when
\* the thread has exited or when the timeout expires, then both sockets are
\* closed
StopListeningJoined ==
    /\ stop_pc = "join"
    /\ receive_socket' = Closed(receive_socket)
    /\ send_socket' = Closed(send_socket)
    /\ stop_pc' = "idle"
    /\ UNCHANGED unclosed
    /\ last_call' = [op |-> "stop_listening", outcome |-> "returned"]
    /\ UNCHANGED <<outside_vars, clock, config_vars, dispatch_vars, send_vars,
                   receive_vars, listening, listen_thread, thread_pc,
                   thread_locals, thread_reg, calls>>

\* what the caller of send observes
SendCall(args, target, outcome) ==
    [op |-> "send", args |-> args, target |-> target, outcome |-> outcome]

\* (mutant: a target without port is ignored)
Destination_mut(target) ==
    IF Len(target) <= 1 THEN Ok(<<send_host, send_port>>)
    ELSE IF Len(target) # 2 THEN Raised
    ELSE IF int(target[2]) = Raised THEN Raised
    ELSE Ok(<<target[1], int(target[2]).val>>)

\* the destination of send: (host, port), or Raised where the unpacking of
\* target.split(':') or int(port_str) raises ValueError
Destination(target) ==
    IF Len(target) = 0 THEN Ok(<<send_host, send_port>>)
    ELSE IF Len(target) = 1 THEN Ok(<<target[1], send_port>>)
    ELSE IF Len(target) # 2 THEN Raised
    ELSE IF int(target[2]) = Raised THEN Raised
    ELSE Ok(<<target[1], int(target[2]).val>>)

\* (mutant: no test of the socket before the target is parsed)
SendNoSocket_mut(args, target) ==
    /\ calls < MaxCalls
    /\ send_socket = "None"
    /\ calls' = calls + 1
    /\ last_call' = SendCall(args, target,
                             IF Destination(target) = Raised
                             THEN "raised" ELSE "returned")
    /\ UNCHANGED <<outside_vars, clock, config_vars, socket_vars, dispatch_vars,
                   send_vars, receive_vars, thread_vars>>

\* send without a send socket: "Send socket not available"
SendNoSocket(args, target) ==
    /\ calls < MaxCalls
    /\ send_socket = "None"
    /\ calls' = calls + 1
    /\ last_call' = SendCall(args, target, "returned")
    /\ UNCHANGED <<outside_vars, clock, config_vars, socket_vars, dispatch_vars,
                   send_vars, receive_vars, thread_vars>>

\* send with a target that does not parse: ValueError reaches the caller
SendBadTarget(args, target) ==
    /\ calls < MaxCalls
    /\ send_socket # "None"
    /\ Destination(target) = Raised
    /\ calls' = calls + 1
    /\ last_call' = SendCall(args, target, "raised")
    /\ UNCHANGED <<outside_vars, clock, config_vars, socket_vars, dispatch_vars,
                   send_vars, receive_vars, thread_vars>>

\* (mutant: no except clause in send, the error reaches the caller)
SendCaught_mut(args, target, io_ok) ==
    /\ calls < MaxCalls
    /\ send_socket # "None"
    /\ Destination(target) # Raised
    /\ \/ _build_osc_message(SendAddress, args) = Raised
       \/ send_socket = "closed"
       \/ ~io_ok
    /\ calls' = calls + 1
    /\ last_call' = SendCall(args, target, "raised")
    /\ UNCHANGED <<outside_vars, clock, config_vars, socket_vars, dispatch_vars,
                   send_vars, receive_vars, thread_vars>>

\* send when _build_osc_message or sendto raises: the except clause prints
\* the error and send returns
SendCaught(args, target, io_ok) ==
    /\ calls < MaxCalls
    /\ send_socket # "None"
    /\ Destination(target) # Raised
    /\ \/ _build_osc_message(SendAddress, args) = Raised
       \/ send_socket = "closed"
       \/ ~io_ok
    /\ calls' = calls + 1
    /\ last_call' = SendCall(args, target, "returned")
    /\ UNCHANGED <<outside_vars, clock, config_vars, socket_vars, dispatch_vars,
                   send_vars, receive_vars, thread_vars>>

\* send when the datagram is written
SendOk(args, target, io_ok) ==
    /\ calls < MaxCalls
    /\ send_socket = "open"
    /\ Destination(target) # Raised
    /\ _build_osc_message(SendAddress, args) # Raised
    /\ io_ok
    /\ network' =
           [count |-> network.count + 1,
            last |-> [data |-> _build_osc_message(SendAddress, args).val,
                      dest |-> Destination(target).val]]
    /\ messages_sent' = messages_sent + 1
    /\ clock' = clock + 1
    /\ last_send_time' = clock + 1
    /\ calls' = calls + 1
    /\ last_call' = SendCall(args, target, "returned")
    /\ UNCHANGED <<outside_vars, config_vars, socket_vars, dispatch_vars,
                   receive_vars, thread_vars, sender_pc, sender_reg>>

\* OSCManager.send
Send ==
    \E args \in SendArgLists, target \in Targets, io_ok \in BOOLEAN :
        \/ SendNoSocket(args, target)
        \/ SendBadTarget(args, target)
        \/ SendCaught(args, target, io_ok)
        \/ SendOk(args, target, io_ok)

\* (mutant: an address that has a handler keeps it)
SetItem_mut(handlers, address, handler) ==
    [a \in DOMAIN handlers \cup {address} |->
         IF a \in DOMAIN handlers THEN handlers[a] ELSE handler]

\* the dict after "handlers[address] = handler"
SetItem(handlers, address, handler) ==
    [a \in DOMAIN handlers \cup {address} |->
         IF a = address THEN handler ELSE handlers[a]]

\* OSCManager.register_handler
RegisterHandler(address, handler) ==
    /\ calls < MaxCalls
    /\ message_handlers' = SetItem(message_handlers, address, handler)
    /\ calls' = calls + 1
    /\ last_call' = [op |-> "register_handler", address |-> address,
                     handler |-> handler, outcome |-> "returned"]
    /\ UNCHANGED <<outside_vars, clock, config_vars, socket_vars, td_callback,
                   td_integration_active, send_vars, receive_vars,
                   thread_vars>>

\* (mutant: "del" without the membership test, KeyError for an address that
\* has no handler)
DelItem_mut(handlers, address) ==
    IF address \in DOMAIN handlers
    THEN Ok([a \in DOMAIN handlers \ {address} |-> handlers[a]])
    ELSE Raised

\* the dict after "if address in handlers: del handlers[address]"
DelItem(handlers, address) ==
    IF address \in DOMAIN handlers
    THEN Ok([a \in DOMAIN handlers \ {address} |-> handlers[a]])
    ELSE Ok(handlers)

\* OSCManager.unregister_handler
UnregisterHandler(address) ==
    /\ calls < MaxCalls
    /\ message_handlers' =
           IF DelItem(message_handlers, address) = Raised
           THEN message_handlers
           ELSE DelItem(message_handlers, address).val
    /\ calls' = calls + 1
    /\ last_call' = [op |-> "unregister_handler", address |-> address,
                     outcome |-> IF DelItem(message_handlers, address) = Raised
                                 THEN "raised" ELSE "returned"]
    /\ UNCHANGED <<outside_vars, clock, config_vars, socket_vars, td_callback,
                   td_integration_active, send_vars, receive_vars,
                   thread_vars>>

\* (mutant: a callback that is installed stays)
Install_mut(installed, callback) ==
    IF installed # "None" THEN installed ELSE callback

\* the callback after "self.td_callback = callback"
Install(installed, callback) == callback

\* OSCManager.set_touchdesigner_callback
SetTouchdesignerCallback(callback) ==
    /\ calls < MaxCalls
    /\ td_callback' = Install(td_callback, callback)
    /\ td_integration_active' = TRUE
    /\ calls' = calls + 1
    /\ last_call' = [op |-> "set_touchdesigner_callback",
                     callback |-> callback, outcome |-> "returned"]
    /\ UNCHANGED <<outside_vars, clock, config_vars, socket_vars,
                   message_handlers, send_vars, receive_vars, thread_vars>>

\* (mutant: the first count messages)
PySliceLast_mut(xs, count) ==
    SubSeq(xs, 1, IF count < Len(xs) THEN count ELSE Len(xs))

\* xs[-count:] as Python slices a list: a start before the first element is
\* the first element, -0 is 0
PySliceLast(xs, count) ==
    SubSeq(xs,
           (IF count > 0
            THEN (IF Len(xs) - count > 0 THEN Len(xs) - count ELSE 0)
            ELSE (IF -count < Len(xs) THEN -count ELSE Len(xs))) + 1,
           Len(xs))

\* OSCManager.get_recent_messages
GetRecentMessages(count) ==
    /\ calls < MaxCalls
    /\ calls' = calls + 1
    /\ last_call' = [op |-> "get_recent_messages", count |-> count,
                     result |-> PySliceLast(message_queue, count),
                     outcome |-> "returned"]
    /\ UNCHANGED <<outside_vars, clock, config_vars, socket_vars, dispatch_vars,
                   send_vars, receive_vars, thread_vars>>

(***************************************************************************)
(* OSCManager._listen_loop and _handle_message, one step at a time, for    *)
(* thread t.  A step is what the thread does between two points where      *)
(* another thread may run.                                                 *)
(***************************************************************************)
\* what a step of thread t leaves alone, beside the variables it names
LoopFrame ==
    <<outside_vars, config_vars, socket_vars, dispatch_vars, send_vars,
      listening, listen_thread, stop_pc, calls, last_call, thread_reg>>

\* thread t moves to pc
Goto(t, pc) == thread_pc' = [thread_pc EXCEPT ![t] = pc]

\* "while self.listening"; the datagram of the last iteration is not used
\* again
LoopTop(t) ==
    /\ thread_pc[t] = "top"
    /\ Goto(t, IF listening THEN "recv" ELSE "exited")
    /\ thread_data' = [thread_data EXCEPT ![t] = <<>>]
    /\ UNCHANGED <<LoopFrame, clock, receive_vars, thread_msg, thread_fn>>

\* recvfrom times out after a second: "except socket.timeout: continue"
\* (a thread only runs after _setup_sockets has assigned receive_socket, so
\* "if self.receive_socket" holds in every iteration)
RecvTimeout(t) ==
    /\ thread_pc[t] = "recv"
    /\ receive_socket \in {"open", "unbound"}
    /\ Goto(t, "top")
    /\ UNCHANGED <<LoopFrame, clock, receive_vars, thread_locals>>

\* (mutant: no "except Exception" in _listen_loop, the error ends the
\* thread)
RecvError_mut(t) ==
    /\ thread_pc[t] = "recv"
    /\ receive_socket # "None"
    /\ Goto(t, "exited")
    /\ UNCHANGED <<LoopFrame, clock, receive_vars, thread_locals>>

\* recvfrom raises (a closed socket, an I/O error): "except Exception"
\* prints the error while listening and sleeps 0.1 s
RecvError(t) ==
    /\ thread_pc[t] = "recv"
    /\ receive_socket # "None"
    /\ Goto(t, "top")
    /\ UNCHANGED <<LoopFrame, clock, receive_vars, thread_locals>>

\* (mutant: a message that failed to parse is handled like any other)
Truthy_mut(message) == TRUE

\* "if message": an OSCMessage is true, None is false
Truthy(message) == message # None

\* recvfrom returns a datagram that does not parse: it is dropped
RecvMalformed(t, d) ==
    /\ thread_pc[t] = "recv"
    /\ receive_socket = "open"
    /\ arrivals < MaxReceived
    /\ ~Truthy(_parse_osc_message(d, clock + 1))
    /\ thread_data' = [thread_data EXCEPT ![t] = d]
    /\ arrivals' = arrivals + 1
    /\ thread_msg' = [thread_msg EXCEPT ![t] = None]
    /\ Goto(t, "top")
    /\ UNCHANGED <<LoopFrame, clock, message_queue, messages_received,
                   last_receive_time, invoked, thread_fn>>

\* recvfrom returns a datagram that parses: _handle_message is entered
RecvMessage(t, d) ==
    /\ thread_pc[t] = "recv"
    /\ receive_socket = "open"
    /\ arrivals < MaxReceived
    /\ Truthy(_parse_osc_message(d, clock + 1))
    /\ thread_data' = [thread_data EXCEPT ![t] = d]
    /\ thread_msg' =
           [thread_msg EXCEPT ![t] = _parse_osc_message(d, clock + 1)]
    /\ clock' = clock + 1
    /\ arrivals' = arrivals + 1
    /\ Goto(t, "queue_test")
    /\ UNCHANGED <<LoopFrame, message_queue, messages_received,
                   last_receive_time, invoked, thread_fn>>

\* "if len(self.message_queue) >= self.max_queue_size"
QueueTest(t) ==
    /\ thread_pc[t] = "queue_test"
    /\ Goto(t, IF Len(message_queue) >= max_queue_size
               THEN "queue_pop" ELSE "queue_append")
    /\ thread_data' = [thread_data EXCEPT ![t] = <<>>]
    /\ UNCHANGED <<LoopFrame, clock, receive_vars, thread_msg, thread_fn>>

\* "self.message_queue.pop(0)"; on an empty list (emptied by another loop
\* thread since the test) pop raises IndexError, which leaves
\* _handle_message for the except clause of _listen_loop
QueuePop(t) ==
    /\ thread_pc[t] = "queue_pop"
    /\ IF message_queue = <<>>
       THEN /\ Goto(t, "top")
            /\ thread_msg' = [thread_msg EXCEPT ![t] = None]
            /\ UNCHANGED message_queue
       ELSE /\ Goto(t, "queue_append")
            /\ message_queue' = Tail(message_queue)
            /\ UNCHANGED thread_msg
    /\ UNCHANGED <<LoopFrame, clock, messages_received, last_receive_time,
                   arrivals, invoked, thread_data, thread_fn>>

\* "self.message_queue.append(message)"
QueueAppend(t) ==
    /\ thread_pc[t] = "queue_append"
    /\ message_queue' = Append(message_queue, thread_msg[t])
    /\ Goto(t, "dispatch")
    /\ UNCHANGED <<LoopFrame, clock, messages_received, last_receive_time,
                   arrivals, invoked, thread_locals>>

\* "if message.address in self.message_handlers"
DispatchTest(t) ==
    /\ thread_pc[t] = "dispatch"
    /\ Goto(t, IF thread_msg[t].address \in DOMAIN message_handlers
               THEN "lookup" ELSE "observer")
    /\ UNCHANGED <<LoopFrame, clock, receive_vars, thread_locals>>

\* a call of fn by thread t for its message, as the log records it
Invocation(t, callee, fn) ==
    [callee |-> callee, fn |-> fn, thread |-> t, message |-> thread_msg[t]]

\* (mutant: the lookup stands before the try; KeyError leaves
\* _handle_message for the except clause of _listen_loop)
DispatchHandler_mut(t) ==
    /\ thread_pc[t] = "lookup"
    /\ IF thread_msg[t].address \in DOMAIN message_handlers
       THEN /\ Goto(t, "in_handler")
            /\ thread_fn' = [thread_fn EXCEPT ![t] =
                                 message_handlers[thread_msg[t].address]]
            /\ invoked' = Append(invoked, Invocation(t, "handler",
                              message_handlers[thread_msg[t].address]))
       ELSE /\ Goto(t, "top")
            /\ UNCHANGED <<thread_fn, invoked>>
    /\ UNCHANGED <<LoopFrame, clock, message_queue, messages_received,
                   last_receive_time, arrivals, thread_msg, thread_data>>

\* "self.message_handlers[message.address](message)": the handler is looked
\* up and entered; KeyError (the entry was removed since the test) is caught
\* by the except clause around the call
DispatchHandler(t) ==
    /\ thread_pc[t] = "lookup"
    /\ IF thread_msg[t].address \in DOMAIN message_handlers
       THEN /\ Goto(t, "in_handler")
            /\ thread_fn' = [thread_fn EXCEPT ![t] =
                                 message_handlers[thread_msg[t].address]]
            /\ invoked' = Append(invoked, Invocation(t, "handler",
                              message_handlers[thread_msg[t].address]))
       ELSE /\ Goto(t, "observer")
            /\ UNCHANGED <<thread_fn, invoked>>
    /\ UNCHANGED <<LoopFrame, clock, message_queue, messages_received,
                   last_receive_time, arrivals, thread_msg, thread_data>>

\* (mutant: no try/except around the handler; its exception reaches the
\* except clause of _listen_loop)
AfterHandler_mut(fn) == IF fn = "raises" THEN "top" ELSE "observer"

\* where _handle_message goes on when the handler fn has returned or raised:
\* "except Exception" prints the error, the observer comes next
AfterHandler(fn) == "observer"

\* the handler returns or raises
HandlerDone(t) ==
    /\ thread_pc[t] = "in_handler"
    /\ Goto(t, AfterHandler(thread_fn[t]))
    /\ thread_fn' = [thread_fn EXCEPT ![t] = "None"]
    /\ UNCHANGED <<LoopFrame, clock, receive_vars, thread_msg, thread_data>>

\* "if self.td_callback: self.td_callback(message.address, message.args)":
\* the callback is entered
DispatchObserver(t) ==
    /\ thread_pc[t] = "observer"
    /\ IF td_callback # "None"
       THEN /\ Goto(t, "in_observer")
            /\ thread_fn' = [thread_fn EXCEPT ![t] = td_callback]
            /\ invoked' = Append(invoked,
                              Invocation(t, "observer", td_callback))
       ELSE /\ Goto(t, "count")
            /\ UNCHANGED <<thread_fn, invoked>>
    /\ UNCHANGED <<LoopFrame, clock, message_queue, messages_received,
                   last_receive_time, arrivals, thread_msg, thread_data>>

\* the callback returns, or raises and "except Exception" prints the error:
\* _handle_message returns
ObserverDone(t) ==
    /\ thread_pc[t] = "in_observer"
    /\ Goto(t, "count")
    /\ thread_fn' = [thread_fn EXCEPT ![t] = "None"]
    /\ UNCHANGED <<LoopFrame, clock, receive_vars, thread_msg, thread_data>>

\* what a step of "self.messages_received += 1" leaves alone
CountFrame ==
    <<outside_vars, config_vars, socket_vars, dispatch_vars, send_vars,
      listening, listen_thread, stop_pc, calls, last_call, message_queue,
      arrivals, invoked, thread_data, thread_fn>>

\* "self.messages_received += 1", the load: the statement reads the field,
\* adds, and writes the field, and another thread may run in between
CountReceived(t) ==
    /\ thread_pc[t] = "count"
    /\ thread_reg' = [thread_reg EXCEPT ![t] = messages_received]
    /\ Goto(t, "count_store")
    /\ UNCHANGED <<CountFrame, clock, messages_received, last_receive_time,
                   thread_msg>>

\* "self.messages_received += 1", the store, and
\* "self.last_receive_time = time.time()"
CountStore(t) ==
    /\ thread_pc[t] = "count_store"
    /\ messages_received' = thread_reg[t] + 1
    /\ clock' = clock + 1
    /\ last_receive_time' = clock + 1
    /\ thread_msg' = [thread_msg EXCEPT ![t] = None]
    /\ thread_reg' = [thread_reg EXCEPT ![t] = 0]
    /\ Goto(t, "top")
    /\ UNCHANGED CountFrame

\* one step of one loop thread, the datagrams read being drawn from datagrams
ListenLoop(datagrams) ==
    \E t \in 1..MaxThreads :
        \/ LoopTop(t)
        \/ RecvTimeout(t)
        \/ RecvError(t)
        \/ \E d \in datagrams : RecvMalformed(t, d)
        \/ \E d \in datagrams : RecvMessage(t, d)
        \/ QueueTest(t)
        \/ QueuePop(t)
        \/ QueueAppend(t)
        \/ DispatchTest(t)
        \/ DispatchHandler(t)
        \/ HandlerDone(t)
        \/ DispatchObserver(t)
        \/ ObserverDone(t)
        \/ CountReceived(t)
        \/ CountStore(t)

\* the state after OSCManager()
Init ==
    /\ InitManager
    /\ clock = 0
    /\ InitMonitor
    /\ InitHardware
    /\ codec_pc = "idle"
    /\ enc_address = <<>>
    /\ enc_args = <<>>
    /\ wire = <<>>
    /\ decoded = None

\* the calls of the receiving side of the manager
ReceiverCall ==
    \/ \E p \in SetupParams : SetupOk(p)
    \/ \E p \in SetupParams : SetupBindFails(p)
    \/ StopListening
    \/ StopListeningJoined
    \/ \E address \in HandlerAddresses, handler \in Handlers :
           RegisterHandler(address, handler)
    \/ \E address \in HandlerAddresses : UnregisterHandler(address)
    \/ \E callback \in Handlers : SetTouchdesignerCallback(callback)
    \/ \E count \in 1..MaxCount : GetRecentMessages(count)

\* any call by any thread of the owner, any step of a loop thread
Next ==
    \/ ReceiverCall
    \/ Send
    \/ ListenLoop(InboundDatagrams)

Spec == Init /\ [][Next]_vars

\* the owner alone: setup, stop_listening and send of a new manager.  The
\* steps of the loop thread that setup starts are not taken here; they write
\* neither the configuration nor the sockets nor what send counts
NextSend ==
    \/ \E p \in SetupParams : SetupOk(p)
    \/ \E p \in SetupParams : SetupBindFails(p)
    \/ StopListening
    \/ StopListeningJoined
    \/ Send

SendSpec == Init /\ [][NextSend]_vars

(***************************************************************************)
(* send called by several threads of the owner at once.  The calls are     *)
(* taken apart at the points where another thread may run: the write of    *)
(* the datagram, and the load and the store of "self.messages_sent += 1".  *)
(***************************************************************************)
\* what a step of a concurrent send leaves alone, beside the variables it
\* names
SenderFrame ==
    <<outside_vars, config_vars, socket_vars, dispatch_vars, receive_vars,
      thread_vars, calls, last_call>>

\* sender s moves to pc
SenderGoto(s, pc) == sender_pc' = [sender_pc EXCEPT ![s] = pc]

\* send up to the return of sendto, the datagram being written
SenderWrite(s, args, target, io_ok) ==
    /\ sender_pc[s] = "idle"
    /\ send_socket = "open"
    /\ Destination(target) # Raised
    /\ _build_osc_message(SendAddress, args) # Raised
    /\ io_ok
    /\ network' =
           [count |-> network.count + 1,
            last |-> [data |-> _build_osc_message(SendAddress, args).val,
                      dest |-> Destination(target).val]]
    /\ SenderGoto(s, "written")
    /\ UNCHANGED <<SenderFrame, clock, messages_sent, last_send_time,
                   sender_reg>>

\* send that writes nothing: no socket, a target that does not parse, or an
\* error of _build_osc_message or sendto, which the except clause prints
SenderFails(s, args, target, io_ok) ==
    /\ sender_pc[s] = "idle"
    /\ \/ send_socket # "open"
       \/ Destination(target) = Raised
       \/ _build_osc_message(SendAddress, args) = Raised
       \/ ~io_ok
    /\ SenderGoto(s, "done")
    /\ UNCHANGED <<SenderFrame, clock, messages_sent, last_send_time,
                   network, sender_reg>>

\* "self.messages_sent += 1", the load
SenderLoad(s) ==
    /\ sender_pc[s] = "written"
    /\ sender_reg' = [sender_reg EXCEPT ![s] = messages_sent]
    /\ SenderGoto(s, "loaded")
    /\ UNCHANGED <<SenderFrame, clock, messages_sent, last_send_time,
                   network>>

\* "self.messages_sent += 1", the store, and
\* "self.last_send_time = time.time()"
SenderStore(s) ==
    /\ sender_pc[s] = "loaded"
    /\ messages_sent' = sender_reg[s] + 1
    /\ clock' = clock + 1
    /\ last_send_time' = clock + 1
    /\ sender_reg' = [sender_reg EXCEPT ![s] = 0]
    /\ SenderGoto(s, "done")
    /\ UNCHANGED <<SenderFrame, network>>

\* one step of one concurrent call of send("/a", [42])
ConcurrentSend ==
    \E s \in 1..MaxSenders :
        \/ \E io_ok \in BOOLEAN : SenderWrite(s, <<PyInt(42)>>, <<>>, io_ok)
        \/ \E io_ok \in BOOLEAN : SenderFails(s, <<PyInt(42)>>, <<>>, io_ok)
        \/ SenderLoad(s)
        \/ SenderStore(s)

(***************************************************************************)
(* The manager as the setup script of create_osc_setup_script leaves it:   *)
(* OSCManager(), set_touchdesigner_callback(touchdesigner_osc_callback),   *)
(* setup().  The calls that follow are those of the receiving side.        *)
(***************************************************************************)
InitScript ==
    /\ receive_port = 7000
    /\ send_port = 7001
    /\ send_host = "localhost"
    /\ receive_socket = "open"
    /\ send_socket = "open"
    /\ unclosed = 0
    /\ listening = TRUE
    /\ listen_thread = 1
    /\ message_handlers = [a \in {} |-> "None"]
    /\ message_queue = <<>>
    /\ messages_sent = 0
    /\ messages_received = 0
    /\ last_send_time = 0
    /\ last_receive_time = 0
    /\ td_integration_active = TRUE
    /\ td_callback \in Handlers
    /\ thread_pc = [t \in 1..MaxThreads |->
                        IF t = 1 THEN "top" ELSE "unstarted"]
    /\ thread_msg = [t \in 1..MaxThreads |-> None]
    /\ thread_data = [t \in 1..MaxThreads |-> <<>>]
    /\ thread_fn = [t \in 1..MaxThreads |-> "None"]
    /\ thread_reg = [t \in 1..MaxThreads |-> 0]
    /\ invoked = <<>>
    /\ stop_pc = "idle"
    /\ sender_pc = [s \in 1..MaxSenders |-> "idle"]
    /\ sender_reg = [s \in 1..MaxSenders |-> 0]
    /\ network = [count |-> 0, last |-> None]
    /\ arrivals = 0
    /\ calls = 0
    /\ last_call = [op |-> "setup", outcome |-> "returned"]
    /\ clock = 0
    /\ InitMonitor
    /\ InitHardware
    /\ codec_pc = "idle"
    /\ enc_address = <<>>
    /\ enc_args = <<>>
    /\ wire = <<>>
    /\ decoded = None

\* OSCManager.send once setup() has created the send socket: send_socket
\* is never None again
SendThroughSocket ==
    \E args \in SendArgLists, target \in Targets, io_ok \in BOOLEAN :
        \/ SendBadTarget(args, target)
        \/ SendCaught(args, target, io_ok)
        \/ SendOk(args, target, io_ok)

NextScriptSend ==
    \/ \E p \in SetupParams : SetupOk(p)
    \/ \E p \in SetupParams : SetupBindFails(p)
    \/ StopListening
    \/ StopListeningJoined
    \/ SendThroughSocket

\* the owner stops the transport the script has set up, sends, and sets it
\* up again; the steps of the loop thread are not taken here
ScriptSendSpec == InitScript /\ [][NextScriptSend]_vars

\* the owner registers and removes handlers and the observer while the loop
\* of the script's setup() runs
NextDispatch ==
    \/ \E address \in HandlerAddresses, handler \in Handlers :
           RegisterHandler(address, handler)
    \/ \E address \in HandlerAddresses : UnregisterHandler(address)
    \/ \E callback \in Handlers : SetTouchdesignerCallback(callback)
    \/ ListenLoop(InboundDatagrams)

DispatchSpec == InitScript /\ [][NextDispatch]_vars

\* the owner reads the log, and registers handlers, while the loop of the
\* script's setup() runs
NextLog ==
    \/ \E count \in 1..MaxCount : GetRecentMessages(count)
    \/ \E address \in HandlerAddresses, handler \in Handlers :
           RegisterHandler(address, handler)
    \/ ListenLoop(InboundDatagrams)

LogSpec == InitScript /\ [][NextLog]_vars

\* (mutant: join() without a timeout returns only when the thread has exited)
JoinReturns_mut ==
    \/ listen_thread = 0
    \/ thread_pc[listen_thread] = "exited"

\* join(timeout=2.0) returns: the loop thread has exited, or it is in a
\* handler or in the observer and stays there for the two seconds (every
\* other step of the loop takes at most the second of the socket timeout)
JoinReturns ==
    \/ listen_thread = 0
    \/ thread_pc[listen_thread] \in {"exited", "in_handler", "in_observer"}

\* the owner, one thread whose calls follow one another, stops and restarts
\* the transport the script has set up, and registers handlers
NextRestart ==
    \/ stop_pc = "idle" /\ SetupOk(<<0, 0, "">>)
    \/ StopListening
    \/ JoinReturns /\ StopListeningJoined
    \/ \E address \in HandlerAddresses, handler \in Handlers :
           stop_pc = "idle" /\ RegisterHandler(address, handler)
    \/ ListenLoop(InboundDatagrams)

RestartSpec == InitScript /\ [][NextRestart]_vars

\* the steps of a loop thread that end within a bounded time: all but the
\* return of a handler or of the observer callback, which are the owner's
\* code (recvfrom returns within the second of settimeout(1.0), line 74)
LoopBounded(datagrams) ==
    \E t \in 1..MaxThreads :
        \/ LoopTop(t)
        \/ RecvTimeout(t)
        \/ RecvError(t)
        \/ \E d \in datagrams : RecvMalformed(t, d)
        \/ \E d \in datagrams : RecvMessage(t, d)
        \/ QueueTest(t)
        \/ QueuePop(t)
        \/ QueueAppend(t)
        \/ DispatchTest(t)
        \/ DispatchHandler(t)
        \/ DispatchObserver(t)
        \/ CountReceived(t)
        \/ CountStore(t)

\* the owner stops the transport the script has set up, and registers
\* handlers before
NextShutdown ==
    \/ StopListening
    \/ JoinReturns /\ StopListeningJoined
    \/ \E address \in HandlerAddresses, handler \in Handlers :
           stop_pc = "idle" /\ RegisterHandler(address, handler)
    \/ ListenLoop(InboundDatagrams)

\* the threads are scheduled: join returns once it can, and the loop thread
\* takes its next step unless it is inside a handler or the callback, which
\* may never return
ShutdownSpec ==
    /\ InitScript
    /\ [][NextShutdown]_vars
    /\ WF_vars(JoinReturns /\ StopListeningJoined)
    /\ WF_vars(LoopBounded(InboundDatagrams))

\* the same owner, with handlers and callbacks that return: every step of
\* the loop thread is taken in the end
CancelSpec ==
    /\ InitScript
    /\ [][NextShutdown]_vars
    /\ WF_vars(JoinReturns /\ StopListeningJoined)
    /\ WF_vars(ListenLoop(InboundDatagrams))

\* the datagrams that arrive while the owner sends: ("/a", [42]) and "/a"
\* without terminator
ConcurrentDatagrams ==
    { _build_osc_message(SendAddress, <<PyInt(42)>>).val, SendAddress }

\* threads of the owner send at the same time while the loop of the
\* script's setup() runs, a handler for "/a" being registered
NextConcurrent ==
    \/ ConcurrentSend
    \/ RegisterHandler(SendAddress, "returns")
    \/ ListenLoop(ConcurrentDatagrams)

ConcurrentSpec == InitScript /\ [][NextConcurrent]_vars

\* scenario 4 of the design: the address '/kinect/enable' of the script's
\* callback, the datagram ("/kinect/enable", [True]) with the tag ",T" and no
\* argument bytes, and the same datagram cut before the terminator
KinectEnable ==
    Str(<<"/", "k", "i", "n", "e", "c", "t", "/", "e", "n", "a", "b", "l",
          "e">>)

KinectDatagrams ==
    { KinectEnable \o <<0, 0>> \o Str(<<",", "T">>) \o <<0, 0>>,
      KinectEnable }

NextKinect ==
    \/ \E handler \in Handlers : RegisterHandler(KinectEnable, handler)
    \/ UnregisterHandler(KinectEnable)
    \/ ListenLoop(KinectDatagrams)

KinectSpec == InitScript /\ [][NextKinect]_vars

(***************************************************************************)
(* PerformanceMonitor (performance-monitoring.template.py).  Times are in  *)
(* milliseconds, FPS values in thousandths of a frame per second rounded   *)
(* down, quality levels in tenths.                                         *)
(***************************************************************************)

\* float("nan") among the levels: every comparison with it is false
NaN == -999

\* a < b on Python floats
PyLess(a, b) == a # NaN /\ b # NaN /\ a < b

\* min(a, b) as Python computes it: b if b < a, else a
PyMin(a, b) == IF PyLess(b, a) THEN b ELSE a

\* max(a, b) as Python computes it: b if b > a, else a
PyMax(a, b) == IF PyLess(a, b) THEN b ELSE a

RECURSIVE PySum(_)
\* sum(xs)
PySum(xs) == IF xs = <<>> THEN 0 ELSE Head(xs) + PySum(Tail(xs))

\* self.fps_thresholds
fps_thresholds ==
    [reduce_quality |-> 45000, increase_quality |-> 58000,
     emergency_reduction |-> 30000]

\* the time between two calls of frame_rendered
FrameTimes == {10, 25, 40}

\* the cook times passed to cook_completed
CookTimes == {5}

\* the levels passed to force_quality_level
ForcedLevels == {0, 3, 20, NaN}

\* xs.append(x) followed by xs.pop(0) when xs is longer than max_history
AppendHistory(xs, x) ==
    IF Len(xs) + 1 > max_history THEN Tail(Append(xs, x)) ELSE Append(xs, x)

\* frame_rendered: 1.0 / avg_frame_time over the last FrameWindow frame
\* times, 0 when the average is not positive
CurrentFps(times) ==
    LET total == PySum(PySliceLast(times, FrameWindow))
        n == IF FrameWindow < Len(times) THEN FrameWindow ELSE Len(times)
    IN IF total > 0 THEN (1000000 * n) \div total ELSE 0

\* what _adjust_quality_if_needed leaves when it returns early or needs no
\* adjustment
Unadjusted ==
    [adjustment |-> "none", level |-> current_quality_level,
     time |-> last_quality_adjustment]

\* what _adjust_quality_if_needed leaves when adjustment_needed is True;
\* adjustment is the message it prints
Adjusted(adjustment, new_quality_level, current_time) ==
    [adjustment |-> adjustment, level |-> new_quality_level,
     time |-> current_time]

\* PerformanceMonitor._adjust_quality_if_needed, with the history as
\* frame_rendered has just updated it
_adjust_quality_if_needed(current_time, history) ==
    LET recent_fps == PySum(PySliceLast(history, SampleWindow)) \div SampleWindow
    IN IF current_time - last_quality_adjustment < quality_adjustment_cooldown
       THEN Unadjusted
       ELSE IF Len(history) < SampleWindow
       THEN Unadjusted
       ELSE IF recent_fps < fps_thresholds.emergency_reduction
       THEN Adjusted("Emergency quality reduction",
                     PyMax(3, current_quality_level - 3), current_time)
       ELSE IF recent_fps < fps_thresholds.reduce_quality
       THEN Adjusted("Quality reduction",
                     PyMax(5, current_quality_level - 1), current_time)
       ELSE IF /\ recent_fps > fps_thresholds.increase_quality
               /\ current_quality_level < 15
       THEN Adjusted("Quality increase",
                     PyMin(15, current_quality_level + 1), current_time)
       ELSE Unadjusted

\* (mutant: the adjustment runs whether or not it is enabled)
AutoAdjust_mut(current_time, history) ==
    _adjust_quality_if_needed(current_time, history)

\* frame_rendered: "if self.auto_quality_adjust:
\* self._adjust_quality_if_needed()"
AutoAdjust(current_time, history) ==
    IF auto_quality_adjust
    THEN _adjust_quality_if_needed(current_time, history)
    ELSE Unadjusted

\* what a call on the monitor leaves alone outside the monitor
MonitorFrame == UNCHANGED <<codec_vars, manager_vars, hardware_vars>>

\* a call on the monitor is made and recorded
MonitorCall(call) ==
    /\ monitor_calls < MaxMonitorCalls
    /\ monitor_calls' = monitor_calls + 1
    /\ monitor_last' = call

\* PerformanceMonitor.frame_rendered, elapsed milliseconds after the
\* previous reading of the time
FrameRendered(elapsed) ==
    LET current_time == clock + elapsed
        frame_time == current_time - last_frame_time
        times == AppendHistory(frame_times, frame_time)
        fps == IF Len(times) > 1 THEN CurrentFps(times) ELSE metrics_fps
        history == AppendHistory(fps_history, fps)
        adjusted == AutoAdjust(current_time, history)
    IN /\ MonitorCall([op |-> "frame_rendered",
                       adjustment |-> adjusted.adjustment])
       /\ clock' = current_time
       /\ frame_times' = times
       /\ metrics_fps' = fps
       /\ metrics_frame_time' = frame_time
       /\ last_frame_time' = current_time
       /\ fps_history' = history
       /\ current_quality_level' = adjusted.level
       /\ last_quality_adjustment' = adjusted.time
       /\ UNCHANGED <<cook_times, metrics_cook_time, auto_quality_adjust>>
       /\ MonitorFrame

\* PerformanceMonitor.cook_completed
CookCompleted(cook_time) ==
    LET times == AppendHistory(cook_times, cook_time)
        n == IF SampleWindow < Len(times) THEN SampleWindow ELSE Len(times)
    IN /\ MonitorCall([op |-> "cook_completed", cook_time |-> cook_time])
       /\ cook_times' = times
       /\ metrics_cook_time' = PySum(PySliceLast(times, SampleWindow)) \div n
       /\ UNCHANGED <<clock, frame_times, fps_history, metrics_fps,
                      metrics_frame_time, current_quality_level,
                      auto_quality_adjust, last_frame_time,
                      last_quality_adjustment>>
       /\ MonitorFrame

\* (mutant: the level is stored as it is given)
ForceQualityLevel_mut(level) ==
    /\ MonitorCall([op |-> "force_quality_level", level |-> level])
    /\ current_quality_level' = level
    /\ auto_quality_adjust' = FALSE
    /\ UNCHANGED <<clock, frame_times, cook_times, fps_history, metrics_fps,
                   metrics_frame_time, metrics_cook_time, last_frame_time,
                   last_quality_adjustment>>
    /\ MonitorFrame

\* PerformanceMonitor.force_quality_level
ForceQualityLevel(level) ==
    /\ MonitorCall([op |-> "force_quality_level", level |-> level])
    /\ current_quality_level' = PyMax(3, PyMin(15, level))
    /\ auto_quality_adjust' = FALSE
    /\ UNCHANGED <<clock, frame_times, cook_times, fps_history, metrics_fps,
                   metrics_frame_time, metrics_cook_time, last_frame_time,
                   last_quality_adjustment>>
    /\ MonitorFrame

\* PerformanceMonitor.enable_auto_quality
EnableAutoQuality ==
    /\ MonitorCall([op |-> "enable_auto_quality"])
    /\ auto_quality_adjust' = TRUE
    /\ UNCHANGED <<clock, frame_times, cook_times, fps_history, metrics_fps,
                   metrics_frame_time, metrics_cook_time,
                   current_quality_level, last_frame_time,
                   last_quality_adjustment>>
    /\ MonitorFrame

NextMonitor ==
    \/ \E elapsed \in FrameTimes : FrameRendered(elapsed)
    \/ \E cook_time \in CookTimes : CookCompleted(cook_time)
    \/ \E level \in ForcedLevels : ForceQualityLevel(level)
    \/ EnableAutoQuality

MonitorSpec == Init /\ [][NextMonitor]_vars

(***************************************************************************)
(* HardwareManager (hardware-integration.template.py).  A detection is     *)
(* given what the device library did: "present" (the device answered),     *)
(* "absent" (the library found no device), "ImportError" (the library is   *)
(* not installed) or "Exception" (the library raised).                     *)
(***************************************************************************)

DeviceNames == {"kinect", "midi", "audio", "camera"}

DetectionOutcomes == {"present", "absent", "ImportError", "Exception"}

\* what the device libraries did during one detect_all_hardware
DetectionInputs ==
    [kinect : DetectionOutcomes, midi : {"present", "absent"},
     audio : {"present", "ImportError"}, camera : {"present", "Exception"}]

\* the callbacks passed to set_touchdesigner_callback
HardwareCallbacks == {"hardware_callback", "other_callback"}

\* the names passed to enable_simulation_mode
SimulatedNames == {"kinect", "midi", "unknown"}

\* the constructors of KinectIntegration, KinectSimulation, MIDIIntegration
\* and AudioIntegration: self.callback = None
NewIntegration(class) == [kind |-> class, callback |-> "None"]

\* "if integration: integration.set_callback(callback)"
PassCallback(integration, callback) ==
    IF integration = None
    THEN integration
    ELSE [integration EXCEPT !.callback = callback]

\* the HardwareDevice a detection leaves before any fallback
Detected(outcome, absent_message, import_message) ==
    CASE outcome = "present" ->
           [status |-> "AVAILABLE", error_message |-> "None"]
      [] outcome = "absent" ->
           [status |-> "ERROR", error_message |-> absent_message]
      [] outcome = "ImportError" ->
           [status |-> "ERROR", error_message |-> import_message]
      [] outcome = "Exception" ->
           [status |-> "ERROR", error_message |-> "str(e)"]

\* (mutant: no fallback to the simulation)
_detect_kinect_mut(outcome, fallback) ==
    [device |-> Detected(outcome, "Kinect not responding",
                         "PyKinect2 not installed"),
     integration |-> IF outcome = "present"
                     THEN NewIntegration("KinectIntegration")
                     ELSE kinect_integration]

\* HardwareManager._detect_kinect: the device it stores and the
\* kinect_integration it leaves, fallback being self.auto_fallback
_detect_kinect(outcome, fallback) ==
    LET kinect_device == Detected(outcome, "Kinect not responding",
                                  "PyKinect2 not installed")
    IN IF kinect_device.status = "ERROR" /\ fallback
       THEN [device |-> [status |-> "SIMULATION", error_message |-> "None"],
             integration |-> NewIntegration("KinectSimulation")]
       ELSE [device |-> kinect_device,
             integration |-> IF outcome = "present"
                             THEN NewIntegration("KinectIntegration")
                             ELSE kinect_integration]

\* HardwareManager._detect_midi: the device it stores
_detect_midi(outcome) ==
    Detected(outcome, "No MIDI devices found", "pygame not installed")

\* HardwareManager._detect_audio: the device it stores
_detect_audio(outcome) ==
    Detected(outcome, "No audio devices found", "pyaudio not installed")

\* HardwareManager._detect_cameras: the device it stores
_detect_cameras(outcome) ==
    Detected(outcome, "Camera not accessible", "OpenCV not installed")

\* HardwareManager.is_device_available: "device and device.status in [...]"
\* is None when the name is not among the devices
is_device_available(device_name) ==
    IF device_name \notin DOMAIN devices
    THEN PyNone
    ELSE PyBool(devices[device_name].status
                  \in {"AVAILABLE", "CONNECTED", "SIMULATION"})

\* what a call on the hardware manager leaves alone outside it
HardwareFrame == UNCHANGED <<codec_vars, clock, manager_vars, monitor_vars>>

\* a call on the hardware manager is made and recorded
HardwareCall(call) ==
    /\ hardware_calls < MaxHardwareCalls
    /\ hardware_calls' = hardware_calls + 1
    /\ hardware_last' = call

\* HardwareManager.detect_all_hardware, outcomes giving what each device
\* library did and fallback being self.auto_fallback
DetectAllHardware(outcomes, fallback) ==
    LET kinect == _detect_kinect(outcomes.kinect, fallback)
        found == [name \in DeviceNames |->
                    CASE name = "kinect" -> kinect.device
                      [] name = "midi" -> _detect_midi(outcomes.midi)
                      [] name = "audio" -> _detect_audio(outcomes.audio)
                      [] name = "camera" -> _detect_cameras(outcomes.camera)]
    IN /\ devices' = [name \in DOMAIN devices \cup DeviceNames |->
                        IF name \in DeviceNames
                        THEN found[name] ELSE devices[name]]
       /\ kinect_integration' = kinect.integration
       /\ midi_integration' = IF outcomes.midi = "present"
                              THEN NewIntegration("MIDIIntegration")
                              ELSE midi_integration
       /\ audio_integration' = IF outcomes.audio = "present"
                               THEN NewIntegration("AudioIntegration")
                               ELSE audio_integration

\* HardwareManager.initialize
Initialize(auto_detect, simulation_fallback, outcomes) ==
    /\ HardwareCall([op |-> "initialize", auto_detect |-> auto_detect,
                     simulation_fallback |-> simulation_fallback,
                     kinect |-> outcomes.kinect])
    /\ auto_fallback' = simulation_fallback
    /\ IF auto_detect
       THEN DetectAllHardware(outcomes, simulation_fallback)
       ELSE UNCHANGED <<devices, kinect_integration, midi_integration,
                        audio_integration>>
    /\ UNCHANGED hardware_callback
    /\ HardwareFrame

\* HardwareManager.set_touchdesigner_callback
HardwareSetCallback(callback) ==
    /\ HardwareCall([op |-> "set_touchdesigner_callback",
                     callback |-> callback])
    /\ hardware_callback' = callback
    /\ kinect_integration' = PassCallback(kinect_integration, callback)
    /\ midi_integration' = PassCallback(midi_integration, callback)
    /\ audio_integration' = PassCallback(audio_integration, callback)
    /\ UNCHANGED <<devices, auto_fallback>>
    /\ HardwareFrame

\* HardwareManager.enable_simulation_mode
EnableSimulationMode(device_name) ==
    /\ HardwareCall([op |-> "enable_simulation_mode",
                     device_name |-> device_name])
    /\ IF device_name \in DOMAIN devices
       THEN /\ devices' = [devices EXCEPT ![device_name] =
                             [status |-> "SIMULATION",
                              error_message |-> "None"]]
            /\ kinect_integration' =
                 IF device_name = "kinect" /\ kinect_integration = None
                 THEN NewIntegration("KinectSimulation")
                 ELSE kinect_integration
       ELSE UNCHANGED <<devices, kinect_integration>>
    /\ UNCHANGED <<auto_fallback, midi_integration, audio_integration,
                   hardware_callback>>
    /\ HardwareFrame

NextHardware ==
    \/ \E auto_detect \in BOOLEAN, simulation_fallback \in BOOLEAN,
          outcomes \in DetectionInputs :
         Initialize(auto_detect, simulation_fallback, outcomes)
    \/ \E callback \in HardwareCallbacks : HardwareSetCallback(callback)
    \/ \E device_name \in SimulatedNames : EnableSimulationMode(device_name)

HardwareSpec == Init /\ [][NextHardware]_vars

(***************************************************************************)
(* The wire format as the design states it, used to state the properties.  *)
(***************************************************************************)
\* the codec has decoded wire
Decoded == codec_pc \in {"roundtrip", "decoded"}

\* a valid address: non-empty and starting with '/'
ValidAddress(a) == Len(a) > 0 /\ a[1] = 47

\* a value of a supported type: int32, float32, string, boolean
IsSupported(arg) ==
    \/ arg.type \in {"float", "str", "bool"}
    \/ arg.type = "int" /\ arg.val[1] >= -32768 /\ arg.val[1] <= 32767

AllSupported(xs) == \A k \in 1..Len(xs) : IsSupported(xs[k])

\* the length of a field holding n bytes of text: the least multiple of 4
\* greater than n
FieldLen(n) == CHOOSE m \in (n + 1)..(n + 4) : m % 4 = 0

\* the field of the text x: x, a terminator, and zero padding
FieldOf(x) == x \o Zeros(FieldLen(Len(x)) - Len(x))

\* the offset of the type-tag string of datagram d: the first 4-byte-aligned
\* offset after the terminator of the address (-1 without a terminator)
TagOffset(d) ==
    IF Find(d, 0) = -1 THEN -1
    ELSE CHOOSE m \in (Find(d, 0) + 1)..(Find(d, 0) + 4) : m % 4 = 0

\* the type-tag string of d is terminated
TagTerminated(d) == TagOffset(d) # -1 /\ Find(d, TagOffset(d)) # -1

\* the bytes of the type-tag string of d, up to its terminator
TagString(d) == Slice(d, TagOffset(d), Find(d, TagOffset(d)))

\* the tag characters f, i, s, T, F
KnownTags == {102, 105, 115, 84, 70}

(***************************************************************************)
(* C1 (as stated; the code violates it).  Round trip: for a valid address  *)
(* and arguments of the supported types, decoding the encoded bytes yields *)
(* an OSCMessage with the same address and the same argument sequence.     *)
(***************************************************************************)
C1_RoundTrip ==
    (codec_pc = "roundtrip" /\ ValidAddress(enc_address)
        /\ AllSupported(enc_args))
    => /\ decoded.kind = "OSCMessage"
       /\ decoded.address = enc_address
       /\ decoded.args = enc_args

(***************************************************************************)
(* C2.  Decode never raises: for every buffer _parse_osc_message returns   *)
(* an OSCMessage or None; no exception escapes.                            *)
(***************************************************************************)
C2_DecodeNeverRaises ==
    Decoded => \/ decoded = None
               \/ /\ decoded.kind = "OSCMessage"
                  /\ decoded.timestamp = clock

\* a buffer on which a statement of the try block raised (text that is not
\* UTF-8) has been decoded
C2_Witness ==
    /\ codec_pc = "decoded"
    /\ ParseBody(wire, clock) = Raised
    /\ decoded = None

(***************************************************************************)
(* C3 (as stated; the code violates it).  Every decoded OSCMessage has     *)
(* exactly as many args as there are type-tag characters after the comma;  *)
(* truncated arguments make decode fail.                                   *)
(***************************************************************************)
C3_ArgsMatchTags ==
    (Decoded /\ decoded.kind = "OSCMessage")
    => Len(decoded.args) + 1 = Len(TagString(wire))

(***************************************************************************)
(* C4 (as stated; the code violates it).  Decode fails for every datagram  *)
(* whose address has no terminator or does not start with '/'.             *)
(***************************************************************************)
C4_MalformedAddressFails ==
    (Decoded /\ (Find(wire, 0) = -1 \/ ~ValidAddress(wire)))
    => decoded = None

(***************************************************************************)
(* C5 (as stated; the code violates it).  Decode fails for every datagram  *)
(* whose type-tag string, read from the aligned offset after the address,  *)
(* has no terminator or does not start with ','.                           *)
(***************************************************************************)
C5_MalformedTypeTagFails ==
    (Decoded /\ Find(wire, 0) # -1
        /\ (~TagTerminated(wire) \/ TagString(wire) = <<>>
            \/ TagString(wire)[1] # 44))
    => decoded = None

(***************************************************************************)
(* C6 (as stated; the code violates it).  A type-tag character other than  *)
(* f, i, s, T, F anywhere in the tag string makes decode fail.             *)
(***************************************************************************)
C6_UnknownTagFails ==
    (Decoded /\ TagTerminated(wire)
        /\ \E k \in 2..Len(TagString(wire)) :
               TagString(wire)[k] \notin KnownTags)
    => decoded = None

\* the string arguments of xs, in order
StrArgs(xs) == SelectSeq(xs, LAMBDA a : a.type = "str")

\* reading the argument data of d from offset pos by the tag characters
\* tags[k..]: every 's' field is the field of the next string of strs
\* (from the j-th on), 'i' and 'f' take 4 bytes, and the data ends with
\* the last tag
RECURSIVE StringFieldsOk(_, _, _, _, _, _)
StringFieldsOk(d, tags, k, pos, strs, j) ==
    IF k > Len(tags) THEN j > Len(strs) /\ pos = Len(d)
    ELSE IF tags[k] \in {102, 105} THEN
        StringFieldsOk(d, tags, k + 1, pos + 4, strs, j)
    ELSE IF tags[k] = 115 THEN
        /\ j <= Len(strs)
        /\ LET f == FieldOf(Utf8Encode(strs[j].val).val)
           IN  /\ Slice(d, pos, pos + Len(f)) = f
               /\ StringFieldsOk(d, tags, k + 1, pos + Len(f), strs, j + 1)
    ELSE StringFieldsOk(d, tags, k + 1, pos, strs, j)

(***************************************************************************)
(* C7.  encode emits the address, the type-tag string and every string     *)
(* argument followed by at least one 0x00 and zero-padded to a multiple of *)
(* 4 bytes; the whole message is a multiple of 4 bytes long.               *)
(***************************************************************************)
C7_FieldsPadded ==
    codec_pc = "encoded" =>
      LET addr == Utf8Encode(enc_address).val
          tag == TagString(wire)
      IN  /\ Len(wire) % 4 = 0
          /\ Slice(wire, 0, FieldLen(Len(addr))) = FieldOf(addr)
          /\ TagOffset(wire) = FieldLen(Len(addr))
          /\ TagTerminated(wire)
          /\ Slice(wire, TagOffset(wire),
                   TagOffset(wire) + FieldLen(Len(tag))) = FieldOf(tag)
          /\ StringFieldsOk(wire, tag, 2,
                 TagOffset(wire) + FieldLen(Len(tag)), StrArgs(enc_args), 1)

\* an address, a type-tag string and a string argument whose lengths are
\* multiples of 4 have been encoded
C7_Witness ==
    /\ codec_pc = "encoded"
    /\ Len(Utf8Encode(enc_address).val) % 4 = 0
    /\ Len(TagString(wire)) = 4
    /\ \E k \in 1..Len(enc_args) :
           enc_args[k].type = "str" /\ Len(enc_args[k].val) = 4

\* the tag character the design assigns to a supported value
TagOfValue(arg) ==
    CASE arg.type = "float" -> 102
      [] arg.type = "int" -> 105
      [] arg.type = "str" -> 115
      [] arg.type = "bool" -> IF arg.val[2] = 1 THEN 84 ELSE 70

\* the argument bytes the design assigns to an int, float or boolean
BytesOfValue(arg) ==
    CASE arg.type = "float" -> pack_f(arg.val)
      [] arg.type = "int" -> pack_i(arg.val).val
      [] arg.type = "bool" -> <<>>

RECURSIVE DataOfValues(_, _)
DataOfValues(xs, k) ==
    IF k > Len(xs) THEN <<>>
    ELSE BytesOfValue(xs[k]) \o DataOfValues(xs, k + 1)

(***************************************************************************)
(* C8 (as stated; the code violates it).  encode maps a boolean to the tag *)
(* 'T' or 'F' and no argument bytes, an int to 'i' and a float to 'f' with *)
(* exactly 4 big-endian bytes each.                                        *)
(***************************************************************************)
C8_BooleanTags ==
    (codec_pc = "encoded"
        /\ \A k \in 1..Len(enc_args) :
               IsSupported(enc_args[k]) /\ enc_args[k].type # "str")
    => wire = FieldOf(Utf8Encode(enc_address).val)
                \o FieldOf(<<44>> \o [k \in 1..Len(enc_args) |->
                                          TagOfValue(enc_args[k])])
                \o DataOfValues(enc_args, 1)

(***************************************************************************)
(* C9.  encode("/particles/count", [42]) yields the 16 address bytes and   *)
(* four 0x00, then ',' 'i' 0x00 0x00, then 00 00 00 2A; decoding exactly   *)
(* these bytes yields address "/particles/count" with args [42].           *)
(***************************************************************************)
C9_Scenario ==
    /\ (codec_pc \in {"encoded", "roundtrip"}
            /\ enc_address = ParticlesCount /\ enc_args = <<PyInt(42)>>)
       => wire = ScenarioBytes
    /\ (Decoded /\ wire = ScenarioBytes)
       => /\ decoded.kind = "OSCMessage"
          /\ decoded.address = ParticlesCount
          /\ decoded.args = <<PyInt(42)>>

\* the scenario's message has been encoded and its bytes decoded
C9_Witness ==
    /\ codec_pc = "roundtrip"
    /\ enc_address = ParticlesCount
    /\ enc_args = <<PyInt(42)>>
    /\ Len(wire) = 28
    /\ decoded.kind = "OSCMessage"

(***************************************************************************)
(* C10 (as stated; the code violates it).  When send is called, on a       *)
(* manager that has a send socket, with an argument that is not an int32,  *)
(* float32, string or boolean, the call fails with an error signalled to   *)
(* the caller before any I/O: no datagram is written and messages_sent is  *)
(* unchanged.                                                              *)
(***************************************************************************)
C10_UnsupportedArgFails ==
    [][(calls' = calls + 1 /\ last_call'.op = "send"
            /\ send_socket # "None" /\ ~AllSupported(last_call'.args))
       => (/\ last_call'.outcome = "raised"
           /\ network' = network
           /\ messages_sent' = messages_sent)]_vars

(***************************************************************************)
(* The message log, the handler registry and dispatch.                     *)
(***************************************************************************)
\* thread t is in _handle_message, its message appended to the log
Dispatching(t) ==
    thread_pc[t] \in {"dispatch", "lookup", "in_handler", "observer",
                      "in_observer", "count"}

\* thread t has been started and has not left _listen_loop
Alive(t) == thread_pc[t] \notin {"unstarted", "exited"}

\* the calls of callee ("handler", "observer") made for message m so far
CallsFor(callee, m) ==
    {i \in 1..Len(invoked) :
         invoked[i].callee = callee /\ invoked[i].message = m}

\* this step is a call of op by the owner
IsCall(op) == calls' = calls + 1 /\ last_call'.op = op

\* this step enters a handler or the observer
Invokes(callee) ==
    /\ Len(invoked') = Len(invoked) + 1
    /\ invoked'[Len(invoked')].callee = callee

\* C11: the message log never holds more than max_queue_size entries, its
\* entries are in arrival order, and a message that has been appended is in
\* the log unless the log is full of newer messages (the oldest entries are
\* evicted first).
C11_BoundedLog ==
    /\ Len(message_queue) <= max_queue_size
    /\ \A i, j \in 1..Len(message_queue) :
           i < j => message_queue[i].timestamp < message_queue[j].timestamp
    /\ \A t \in 1..MaxThreads :
           Dispatching(t) =>
               \/ \E i \in 1..Len(message_queue) :
                      message_queue[i] = thread_msg[t]
               \/ /\ Len(message_queue) = max_queue_size
                  /\ \A i \in 1..Len(message_queue) :
                         message_queue[i].timestamp > thread_msg[t].timestamp

\* C12: get_recent_messages(n), n positive, returns the last min(n, log
\* size) messages of the log, oldest first and newest last, and leaves the
\* log as it is.
C12_RecentMessages ==
    [][IsCall("get_recent_messages") =>
           LET n == last_call'.count
               result == last_call'.result
               k == IF n < Len(message_queue) THEN n ELSE Len(message_queue)
           IN  /\ Len(result) = k
               /\ \A i \in 1..k :
                      result[i] = message_queue[Len(message_queue) - k + i]
               /\ message_queue' = message_queue
               /\ last_call'.outcome = "returned"]_vars

\* get_recent_messages(1) has returned the newer of the two logged messages
C12_Witness ==
    /\ last_call.op = "get_recent_messages"
    /\ last_call.count = 1
    /\ Len(message_queue) = 2
    /\ last_call.result = <<message_queue[2]>>

\* C13: register_handler(address, handler) makes handler the one handler of
\* address and unregister_handler(address) leaves address without handler,
\* no other step changes the registry, and the handler entered for a message
\* is the one the registry holds for the address of the message at that
\* moment.
C13_LastWriteWins ==
    [][/\ IsCall("register_handler") =>
              /\ DOMAIN message_handlers' =
                     DOMAIN message_handlers \cup {last_call'.address}
              /\ message_handlers'[last_call'.address] = last_call'.handler
              /\ \A a \in DOMAIN message_handlers \ {last_call'.address} :
                     message_handlers'[a] = message_handlers[a]
       /\ IsCall("unregister_handler") =>
              /\ DOMAIN message_handlers' =
                     DOMAIN message_handlers \ {last_call'.address}
              /\ \A a \in DOMAIN message_handlers' :
                     message_handlers'[a] = message_handlers[a]
       /\ ~(IsCall("register_handler") \/ IsCall("unregister_handler")) =>
              message_handlers' = message_handlers
       /\ Invokes("handler") =>
              LET call == invoked'[Len(invoked')]
              IN  /\ call.message.address \in DOMAIN message_handlers
                  /\ call.fn = message_handlers[call.message.address]]_vars

\* two messages for one address have been handed to different handlers, the
\* second registered in place of the first
C13_Witness ==
    /\ calls = 2
    /\ last_call.op = "register_handler"
    /\ \E i, j \in 1..Len(invoked) :
           /\ i < j
           /\ invoked[i].callee = "handler"
           /\ invoked[j].callee = "handler"
           /\ invoked[i].message.address = invoked[j].message.address
           /\ invoked[i].fn # invoked[j].fn
           /\ invoked[j].fn = last_call.handler

\* C14: unregister_handler returns normally; for an address without handler
\* it leaves the registry, the log, the counters and the observer as they
\* are; for an address with a handler it removes that entry and no other.
C14_UnregisterAbsent ==
    [][IsCall("unregister_handler") =>
           /\ last_call'.outcome = "returned"
           /\ last_call'.address \notin DOMAIN message_handlers =>
                  message_handlers' = message_handlers
           /\ DOMAIN message_handlers' =
                  DOMAIN message_handlers \ {last_call'.address}
           /\ \A a \in DOMAIN message_handlers' :
                  message_handlers'[a] = message_handlers[a]
           /\ UNCHANGED <<message_queue, messages_sent, messages_received,
                          last_send_time, last_receive_time, td_callback,
                          td_integration_active>>]_vars

\* unregister_handler has been called as the first call, when no address had
\* a handler
C14_Witness ==
    /\ calls = 1
    /\ last_call.op = "unregister_handler"
    /\ last_call.outcome = "returned"
    /\ DOMAIN message_handlers = {}

\* C15: a handler or an observer that raises stops nothing: a thread leaves
\* a handler for the observer test and the observer for the count of the
\* message, whatever they did; every message that has a handler at the
\* lookup is handed to it, and every message whose dispatch is over has been
\* handed to the observer (which the script has installed).
C15_DispatchIsolation ==
    /\ [](\A t \in 1..MaxThreads :
              thread_pc[t] = "count" =>
                  CallsFor("observer", thread_msg[t]) # {})
    /\ [][\A t \in 1..MaxThreads :
              /\ (thread_pc[t] = "in_handler" /\ thread_pc'[t] # "in_handler")
                     => thread_pc'[t] = "observer"
              /\ (thread_pc[t] = "in_observer"
                      /\ thread_pc'[t] # "in_observer")
                     => thread_pc'[t] = "count"
              /\ (thread_pc[t] = "lookup" /\ thread_pc'[t] # "lookup"
                      /\ thread_msg[t].address \in DOMAIN message_handlers)
                     => /\ thread_pc'[t] = "in_handler"
                        /\ Invokes("handler")
                        /\ invoked'[Len(invoked')].message = thread_msg[t]
              /\ (thread_pc[t] = "observer" /\ thread_pc'[t] # "observer"
                      /\ td_callback # "None")
                     => /\ thread_pc'[t] = "in_observer"
                        /\ Invokes("observer")
                        /\ invoked'[Len(invoked')].message = thread_msg[t]]_vars

\* the handler of "/a" raised, the observer was called for the same message
\* and raised too, and the message for "/b" that arrived next has been
\* handed to its handler and to the observer
C15_Witness ==
    \E i, j, k, l \in 1..Len(invoked) :
        /\ i < j /\ j < k /\ k < l
        /\ invoked[i].callee = "handler"
        /\ invoked[i].fn = "raises"
        /\ invoked[i].message.address = Str(<<"/", "a">>)
        /\ invoked[j].callee = "observer"
        /\ invoked[j].fn = "raises"
        /\ invoked[j].message = invoked[i].message
        /\ invoked[k].callee = "handler"
        /\ invoked[k].message.address = Str(<<"/", "b">>)
        /\ invoked[l].callee = "observer"
        /\ invoked[l].message = invoked[k].message

\* C16: set_touchdesigner_callback replaces the one observer; the observer
\* entered for a message is the one installed at that moment; no message is
\* handed to the observer twice, and every message whose dispatch is over
\* has been handed to it once, with or without a handler for its address.
C16_ObserverOnce ==
    /\ [](/\ \A i, j \in 1..Len(invoked) :
                 (invoked[i].callee = "observer"
                      /\ invoked[j].callee = "observer"
                      /\ invoked[i].message = invoked[j].message) => i = j
          /\ \A t \in 1..MaxThreads :
                 thread_pc[t] = "count" =>
                     Cardinality(CallsFor("observer", thread_msg[t])) = 1)
    /\ [][/\ IsCall("set_touchdesigner_callback") =>
                 td_callback' = last_call'.callback
          /\ ~IsCall("set_touchdesigner_callback") =>
                 td_callback' = td_callback
          /\ Invokes("observer") =>
                 invoked'[Len(invoked')].fn = td_callback]_vars

\* two messages, neither with a handler, have been handed to the observer:
\* the first to the callback of the script, the second to the one installed
\* in its place
C16_Witness ==
    /\ last_call.op = "set_touchdesigner_callback"
    /\ DOMAIN message_handlers = {}
    /\ Len(invoked) = 2
    /\ invoked[1].callee = "observer"
    /\ invoked[2].callee = "observer"
    /\ invoked[1].fn # invoked[2].fn
    /\ invoked[2].fn = td_callback
    /\ \E t \in 1..MaxThreads :
           thread_pc[t] = "count" /\ thread_msg[t] = invoked[2].message

\* C17: a message for '/kinect/enable' is handed to the handler of that
\* address at most once (once when its dispatch is over and the handler was
\* registered throughout), and the message handed over has the one argument
\* True.
C17_Scenario4 ==
    /\ \A i \in 1..Len(invoked) :
           (invoked[i].callee = "handler"
                /\ invoked[i].message.address = KinectEnable)
               => invoked[i].message.args = <<PyBool(TRUE)>>
    /\ \A i, j \in 1..Len(invoked) :
           (invoked[i].callee = "handler" /\ invoked[j].callee = "handler"
                /\ invoked[i].message = invoked[j].message) => i = j

\* C18: a datagram that does not parse changes neither the log nor the
\* calls made nor messages_received nor last_receive_time, and the thread
\* that read it is back at the head of the loop.
C18_FailedDecodeDropped ==
    [][\A t \in 1..MaxThreads :
           (thread_pc[t] = "recv" /\ arrivals' = arrivals + 1
                /\ thread_pc'[t] # "recv"
                /\ _parse_osc_message(thread_data'[t], clock + 1) = None)
               => /\ thread_pc'[t] = "top"
                  /\ UNCHANGED <<message_queue, invoked, messages_received,
                                 last_receive_time>>]_vars

\* the first datagram did not parse and left no trace, and the loop has read
\* the second, which parses
C18_Witness ==
    \E t \in 1..MaxThreads :
        /\ thread_pc[t] = "queue_test"
        /\ arrivals = 2
        /\ message_queue = <<>>
        /\ messages_received = 0
        /\ last_receive_time = 0
        /\ invoked = <<>>

\* C19: no two calls of handlers or of the observer are in progress at the
\* same time, and messages are handed over in the order they arrived.
C19_Serialized ==
    /\ Cardinality({t \in 1..MaxThreads :
                        thread_pc[t] \in {"in_handler", "in_observer"}}) <= 1
    /\ \A i, j \in 1..Len(invoked) :
           i < j =>
               invoked[i].message.timestamp <= invoked[j].message.timestamp

\* C20: at most one thread is in _listen_loop.
C20_OneLoop ==
    Cardinality({t \in 1..MaxThreads : Alive(t)}) <= 1

(***************************************************************************)
(* The lifecycle of the transport: setup, stop_listening, and the loop.    *)
(***************************************************************************)
\* C21: a setup that returns has stopped and joined every loop that ran
\* before it and has closed the sockets it replaces: every thread that was
\* alive when setup was called has exited when it returns, and no socket of
\* an earlier setup is left open
C21_Rebinding ==
    [][IsCall("setup") /\ last_call'.outcome = "returned"
           => /\ \A t \in 1..MaxThreads : Alive(t) => thread_pc'[t] = "exited"
              /\ unclosed' = 0]_vars

\* C22: no socket is closed while a loop thread is alive: stop_listening
\* closes the receive and the send socket only after the thread has exited
C22_CloseAfterExit ==
    \A t \in 1..MaxThreads :
        Alive(t) => receive_socket # "closed" /\ send_socket # "closed"

\* C23: when join returns on its timeout, the loop thread still alive,
\* stop_listening does not return to its caller as a stop that succeeded
C23_TimeoutSurfaced ==
    [][/\ stop_pc = "join"
       /\ stop_pc' = "idle"
       /\ listen_thread # 0
       /\ Alive(listen_thread)
       => last_call'.outcome # "returned"]_vars

\* C24: stop_listening always returns: a call that waits in join comes back,
\* whatever the loop thread does meanwhile
C24_BoundedShutdown == (stop_pc = "join") ~> (stop_pc = "idle")

\* stop_listening has returned while the loop thread is still inside a
\* handler or the callback
C24_Witness ==
    /\ last_call = [op |-> "stop_listening", outcome |-> "returned"]
    /\ thread_pc[listen_thread] \in {"in_handler", "in_observer"}

(***************************************************************************)
(* Sending.                                                                *)
(***************************************************************************)
\* C25: a send writes at most one datagram, and the datagram it writes goes
\* to (host, port) for the target "host:port", to (host, configured
\* send_port) for the target "host", and to (configured send_host,
\* configured send_port) without target
C25_SendDestination ==
    [][IsCall("send")
           => /\ network'.count \in {network.count, network.count + 1}
              /\ network'.count = network.count + 1
                     => network'.last.dest =
                            LET target == last_call'.target
                            IN  IF target = <<>> THEN <<send_host, send_port>>
                                ELSE IF Len(target) = 1
                                     THEN <<target[1], send_port>>
                                     ELSE <<target[1], int(target[2]).val>>
      ]_vars

\* after setup(send_port=9000, send_host="hostB") a send to the bare host
\* "hostB" has written its datagram to ("hostB", 9000)
C25_Witness ==
    /\ last_call.op = "send"
    /\ last_call.target = <<"hostB">>
    /\ send_port = 9000
    /\ network.count = 1
    /\ network.last.dest = <<"hostB", 9000>>

\* C26: a send whose socket write fails (the socket is there, the target
\* and the message are well formed, and no datagram is written) does not
\* return to its caller the way a successful send does
C26_SendFailureSignalled ==
    [][/\ IsCall("send")
       /\ send_socket # "None"
       /\ Destination(last_call'.target) # Raised
       /\ _build_osc_message(SendAddress, last_call'.args) # Raised
       /\ network' = network
       => last_call'.outcome # "returned"]_vars

\* C27: a setup whose bind fails raises to its caller and starts no loop:
\* no thread is started and the listening flag is not set
C27_BindFailureSurfaced ==
    [][IsCall("setup") /\ receive_socket' = "unbound"
           => /\ last_call'.outcome = "raised"
              /\ thread_pc' = thread_pc
              /\ listen_thread' = listen_thread
              /\ listening' = listening]_vars

\* the first setup of a manager has failed in bind: the caller saw the
\* exception and there is no loop
C27_Witness ==
    /\ last_call = [op |-> "setup", outcome |-> "raised"]
    /\ receive_socket = "unbound"
    /\ ~listening
    /\ \A t \in 1..MaxThreads : thread_pc[t] = "unstarted"

(***************************************************************************)
(* The counters and the life of the loop.                                  *)
(***************************************************************************)
\* C28: no step decreases or resets messages_sent or messages_received;
\* messages_sent grows by one in the steps in which a send writes its
\* datagram and in no other, messages_received grows by one in the steps in
\* which a loop thread counts the message it has decoded and dispatched and
\* in no other
C28_Counters ==
    [][/\ messages_sent' =
              IF IsCall("send") /\ network'.count = network.count + 1
              THEN messages_sent + 1 ELSE messages_sent
       /\ messages_received' =
              IF \E t \in 1..MaxThreads :
                     thread_pc[t] = "count_store" /\ thread_pc'[t] = "top"
              THEN messages_received + 1 ELSE messages_received]_vars

\* C29: a loop thread leaves the loop only from the test of the flag and
\* only when the flag is cleared; a read that yields no message (timeout,
\* I/O error, datagram that does not decode) takes the thread back to the
\* test of the flag, and the test, the flag being set, takes it to the next
\* read
C29_LoopSurvives ==
    [][\A t \in 1..MaxThreads :
           /\ thread_pc[t] # "exited" /\ thread_pc'[t] = "exited"
                  => thread_pc[t] = "top" /\ ~listening
           /\ thread_pc[t] = "recv" /\ thread_pc'[t] \notin {"recv", "queue_test"}
                  => thread_pc'[t] = "top"
           /\ thread_pc[t] = "top" /\ thread_pc'[t] # "top" /\ listening
                  => thread_pc'[t] = "recv"]_vars

\* a loop thread has read a datagram that did not decode and is back at the
\* test of the flag, which is set
C29_Witness ==
    \E t \in 1..MaxThreads :
        /\ thread_pc[t] = "top"
        /\ listening
        /\ thread_data[t] # <<>>
        /\ ~Truthy(_parse_osc_message(thread_data[t], clock))

\* C30: once stop_listening has cleared the flag (and setup is not called
\* again) every loop thread exits in the end, reads and handlers returning;
\* and once stop_listening has returned no handler and no observer callback
\* is entered any more
C30_Cancellation ==
    /\ ~listening ~> \A t \in 1..MaxThreads : ~Alive(t)
    /\ [][~listening /\ stop_pc = "idle"
              => ~Invokes("handler") /\ ~Invokes("observer")]_vars

(***************************************************************************)
(* Concurrent callers, and send without an open socket.                    *)
(***************************************************************************)
\* C31: when all the concurrent calls of send have returned, messages_sent
\* is the number of datagrams they have written
C31_NoLostIncrement ==
    (\A s \in 1..MaxSenders : sender_pc[s] = "done")
        => messages_sent = network.count

\* C32: a send of a manager that has no send socket returns to its caller
\* without an exception, writes no datagram and leaves messages_sent and
\* last_send_time as they are
C32_SendBeforeSetup ==
    [][IsCall("send") /\ send_socket = "None"
           => /\ last_call'.outcome = "returned"
              /\ network' = network
              /\ messages_sent' = messages_sent
              /\ last_send_time' = last_send_time]_vars

\* send("/a", [42], "hostB:x") has returned on a manager that was never set
\* up
C32_Witness ==
    /\ last_call.op = "send"
    /\ last_call.target = <<"hostB", "x">>
    /\ last_call.outcome = "returned"
    /\ send_socket = "None"
    /\ receive_socket = "None"
    /\ network.count = 0

\* stop_listening has returned and setup has not been called since
Stopped ==
    /\ ~listening
    /\ stop_pc = "idle"
    /\ receive_socket # "unbound"

Uncounted(t, m) ==
    /\ thread_msg[t] = m
    /\ thread_pc[t] \in {"queue_test", "queue_pop", "queue_append", "dispatch",
                         "lookup", "in_handler", "observer", "in_observer",
                         "count", "count_store"}

\* the calls of the observer (installed throughout) for messages that no
\* thread holds uncounted: the messages that may have been counted
ObserverCalls ==
    {i \in 1..Len(invoked) :
         /\ invoked[i].callee = "observer"
         /\ \A t \in 1..MaxThreads : ~Uncounted(t, invoked[i].message)}

\* C34: when a handler or the observer is entered for a message m, m is the
\* newest entry of the log and m has not been counted: no more messages
\* are counted than the observer was called for and were let go; and
\* the step that counts m is taken by the thread that holds m, after the
\* observer was called for m and with no callback running in that thread
C34_DispatchOrder ==
    [][/\ Invokes("handler") \/ Invokes("observer")
              => /\ message_queue # <<>>
                 /\ message_queue[Len(message_queue)] =
                        invoked'[Len(invoked')].message
                 /\ messages_received <= Cardinality(ObserverCalls)
       /\ messages_received' # messages_received
              => \E t \in 1..MaxThreads :
                     /\ thread_pc[t] = "count_store"
                     /\ thread_pc'[t] = "top"
                     /\ thread_fn[t] = "None"
                     /\ CallsFor("observer", thread_msg[t]) # {}]_vars

\* C35: when the handler of a message's address is removed between the
\* membership test and the lookup, the loop thread goes on to the observer
\* with the same message, which is in the log; the observer, when one is
\* installed, is then called for that message; and the thread does not
\* leave the loop
C35_UnregisterRace ==
    [][\A t \in 1..MaxThreads :
           /\ /\ thread_pc[t] = "lookup"
              /\ thread_msg[t].address \notin DOMAIN message_handlers
              /\ thread_pc'[t] # "lookup"
              => /\ thread_pc'[t] = "observer"
                 /\ thread_msg'[t] = thread_msg[t]
                 /\ \E i \in 1..Len(message_queue') :
                        message_queue'[i] = thread_msg[t]
           /\ /\ thread_pc[t] = "observer"
              /\ thread_pc'[t] # "observer"
              /\ td_callback # "None"
              => /\ Invokes("observer")
                 /\ invoked'[Len(invoked')].message = thread_msg[t]
           /\ Alive(t) => thread_pc'[t] # "exited"]_vars

\* unregister_handler has removed the handler of the address of the message
\* a loop thread holds between the membership test and the lookup
C35_Witness ==
    /\ last_call.op = "unregister_handler"
    /\ \E t \in 1..MaxThreads :
           /\ thread_pc[t] = "lookup"
           /\ thread_msg[t].address \notin DOMAIN message_handlers

\* C36: current_quality_level stays within [0.3, 1.5] whatever frame_rendered,
\* force_quality_level and enable_auto_quality are called with.
C36_QualityRange ==
    /\ current_quality_level # NaN
    /\ current_quality_level >= 3
    /\ current_quality_level <= 15

\* force_quality_level was given a level outside the range
C36_Witness ==
    /\ monitor_last.op = "force_quality_level"
    /\ monitor_last.level \notin 3..15

\* the average of the last SampleWindow FPS samples, as the adjustment
\* computes it
RecentFps == PySum(PySliceLast(fps_history, SampleWindow)) \div SampleWindow

\* the step is a call of frame_rendered in which the adjustment was made
AutoAdjusted ==
    /\ monitor_calls' = monitor_calls + 1
    /\ monitor_last'.op = "frame_rendered"
    /\ monitor_last'.adjustment # "none"

\* C37: an automatic adjustment made while the recent average FPS is below
\* the reduce_quality threshold never sets current_quality_level higher than
\* it was.
C37_ReductionReduces ==
    [][(AutoAdjusted /\ RecentFps' < fps_thresholds.reduce_quality)
         => current_quality_level' <= current_quality_level]_vars

\* the step is a call of frame_rendered or of cook_completed
RenderedOrCooked ==
    /\ monitor_calls' = monitor_calls + 1
    /\ monitor_last'.op \in {"frame_rendered", "cook_completed"}

\* C38: force_quality_level disables the automatic adjustment, and while it
\* is disabled no call of frame_rendered or cook_completed changes
\* current_quality_level or enables it again; a call of frame_rendered changes
\* the level only when a cooldown interval has passed since the adjustment
\* before it, whose time only an adjustment sets, and when at least
\* SampleWindow FPS samples are recorded.
C38_ForcedAndPaced ==
    [][/\ monitor_last'.op = "force_quality_level" => ~auto_quality_adjust'
       /\ (~auto_quality_adjust /\ RenderedOrCooked)
            => /\ ~auto_quality_adjust'
               /\ current_quality_level' = current_quality_level
       /\ (RenderedOrCooked /\ current_quality_level' # current_quality_level)
            => /\ clock' - last_quality_adjustment >= quality_adjustment_cooldown
               /\ last_quality_adjustment' = clock'
               /\ Len(fps_history') >= SampleWindow
       /\ last_quality_adjustment' # last_quality_adjustment
            => /\ AutoAdjusted
               /\ last_quality_adjustment' = clock'
      ]_vars

\* the level was forced, and frame_rendered has left it alone with enough
\* samples of a low FPS and the cooldown over
C38_Witness ==
    /\ ~auto_quality_adjust
    /\ monitor_last.op = "frame_rendered"
    /\ Len(fps_history) >= SampleWindow
    /\ clock - last_quality_adjustment >= quality_adjustment_cooldown
    /\ RecentFps < fps_thresholds.emergency_reduction
    /\ current_quality_level = 15

\* the integrations that exist
Integrations ==
    {kinect_integration, midi_integration, audio_integration} \ {None}

\* C39: once set_touchdesigner_callback(cb) and initialize(auto_detect=True)
\* have both been called, in either order, every integration that exists
\* holds cb as its callback.
C39_CallbackPropagated ==
    (hardware_callback # "None" /\ "kinect" \in DOMAIN devices)
      => \A integration \in Integrations :
           integration.callback = hardware_callback

\* C40: right after initialize(auto_detect=True, simulation_fallback=True) the
\* kinect device is AVAILABLE with a KinectIntegration, or SIMULATION with a
\* KinectSimulation and no error_message, never ERROR, is_device_available
\* is True and kinect_integration is not None; right after
\* initialize(auto_detect=True, simulation_fallback=False) with a failed
\* detection the status is ERROR and is_device_available is False.
C40_GracefulFallback ==
    (hardware_last.op = "initialize" /\ hardware_last.auto_detect)
      => IF hardware_last.simulation_fallback
         THEN /\ devices["kinect"].status # "ERROR"
              /\ \/ /\ devices["kinect"].status = "AVAILABLE"
                    /\ kinect_integration # None
                    /\ kinect_integration.kind = "KinectIntegration"
                 \/ /\ devices["kinect"].status = "SIMULATION"
                    /\ devices["kinect"].error_message = "None"
                    /\ kinect_integration # None
                    /\ kinect_integration.kind = "KinectSimulation"
              /\ is_device_available("kinect") = PyBool(TRUE)
         ELSE hardware_last.kinect # "present"
                => /\ devices["kinect"].status = "ERROR"
                   /\ is_device_available("kinect") = PyBool(FALSE)

\* a detection with the fallback failed although an earlier one had found
\* the device
C40_Witness ==
    /\ hardware_last.op = "initialize"
    /\ hardware_last.auto_detect
    /\ hardware_last.simulation_fallback
    /\ hardware_last.kinect \in {"absent", "ImportError", "Exception"}
    /\ hardware_calls > 1
    /\ devices["kinect"].status = "SIMULATION"

====
